---- MODULE Spec2Model ----
(***************************************************************************)
(* goodseed: the run store (storage.py), the Run object that writes to it  *)
(* (run.py) and the read-only queries of the HTTP server (server.py).      *)
(*                                                                         *)
(* One producer thread drives one Run / LocalStorage instance; one server  *)
(* request at a time reads the same run file through its own read-only     *)
(* connection.  A storage transaction is modelled statement by statement,  *)
(* so that a reader can run between two statements of one call.            *)
(***************************************************************************)
EXTENDS Integers, Sequences, FiniteSets, TLC

\* ------------------------------------------------------------------ bounds
\* longest list / dict handed to one log_metric_points / log_configs call
MaxBatch == 2
\* number of producer API calls in one behaviour (also the wall clock)
MaxCalls == 3
\* number of server requests in one behaviour
MaxRequests == 1
\* number of log_metric_points calls in one behaviour of SpecPoints
MaxPointCalls == 2
\* number of Run(...) constructions in one behaviour
MaxRuns == 3
\* number of calls one thread makes in one behaviour of SpecThreads
MaxThreadCalls == 1
\* calls of the producer in the specification with fairness
MaxFairCalls == 2
\* files the producers put under the projects directory
MaxFiles == 3
\* requests the catalog server answers
MaxServerRequests == 2
\* the int values run from -MaxInt to MaxInt
MaxInt == 12
\* the integer part of the float values runs from 0 to MaxFloatInt
MaxFloatInt == 3
\* `for i in range(2, 1000)` of _resolve_db_path
RetryEnd == 1000

\* ------------------------------------------------------------------ inputs
\* SQL NULL / Python None as a bound value
NULL == "NULL"
\* get_metric_points(path=None): the path argument left out
NoPath == -1
\* normalized series paths, ordered as SQLite's BINARY collation orders them:
\* 0 is the empty string "", 1 is "loss"
Paths == 0..1
Steps == 1..2
\* (y, ts) pairs a direct caller of log_metric_points passes; float("nan")
\* is bound as NULL by sqlite3
YTsInputs == {<<"0.9", 100>>, <<"0.7", 200>>, <<"nan", 100>>}
\* (path, step, y, ts) tuples a direct caller of log_metric_points passes
PointInputs == {<<p, st, v[1], v[2]>> : p \in Paths, st \in Steps, v \in YTsInputs}
\* the few tuples used where the calls matter more than the data
FewPointInputs == {<<1, 1, "0.9", 100>>, <<1, 1, "nan", 100>>}
ConfigPaths == {"lr", "model"}
\* (type_tag, value) pairs a direct caller of log_configs passes; a None
\* type_tag violates NOT NULL
ConfigInputs == {<<"float", "0.001">>, <<"float", "0.01">>, <<NULL, "x">>}
FewConfigInputs == {<<"float", "0.001">>, <<NULL, "x">>}
MetaKeyInputs == {"note"}
MetaValueInputs == {"v1", "v2"}
\* close(status: str): the two documented values and two other strings
CloseStatusArgs == {"finished", "failed", "aborted", "running"}
Routes == {"runs", "configs", "metrics", "metric-paths"}
\* names generate_run_name draws, as <<name, 1>>; <<name, i>> is f"{name}-{i}"
GeneratedNames == {"bold-falcon", "calm-otter"}
\* run_name arguments: names a caller writes, among them "bold-falcon-2"
ExplicitNames == {<<"bold-falcon", 1>>, <<"bold-falcon", 2>>, <<"my-run", 1>>}
NoName == <<"none", 0>>
\* the threads of the producer process that share one LocalStorage
Threads == 1..2
\* the statements a thread's call executes: one set_meta, the entries of a
\* log_configs dict, the points of a log_metric_points list
MetaStatements == {[kind |-> "meta", key |-> "note", value |-> v] : v \in {"v1", "v2"}}
ConfigStatements ==
    {[kind |-> "config", path |-> "lr", type_tag |-> e[1], value |-> e[2]] :
        e \in FewConfigInputs}
PointStatements ==
    {[kind |-> "point", path |-> 1, step |-> 1, y |-> "0.9", ts |-> 100],
     [kind |-> "point", path |-> 1, step |-> 2, y |-> "nan", ts |-> 100],
     [kind |-> "point", path |-> 0, step |-> 1, y |-> "0.7", ts |-> 200]}

VARIABLES
    conn,          \* LocalStorage._conn: "open", or "closed" for None
    series_cache,  \* LocalStorage._series_cache: path -> series id
    db,            \* committed content of the run file (main file + WAL)
    tx,            \* what the writer's connection sees: db plus its open transaction
    call,          \* the storage call in progress inside _transaction
    files,         \* which of the run's files exist on disk, and the WAL's content
    closed,        \* Run._closed
    run_pc,        \* position of the producer inside Run.close
    close_status,  \* the status argument of the Run.close in progress
    now,           \* wall clock, one tick per producer call
    outcome,       \* the last producer call that returned: its name, result, time
    reader,        \* the server request in progress and its read-only connection
    nreq,          \* requests served so far
    logged,        \* history: the points of the successful log_metric_points calls
    stable,        \* history: db when the last storage call returned
    rundir,        \* the run files of the project directory: name -> content
    creating,      \* the Run.__init__ calls: position, arguments, resolved name
    lock,          \* LocalStorage._lock: the thread that holds it, 0 when free
    threads,       \* the threads of the producer calling into one LocalStorage
    tree,          \* the files under <root>/<project>/runs/: file -> content
    response,      \* the last response the server sent
    sent,          \* history: the status codes of the responses sent so far
    util,          \* the call of a function of utils.py: argument and result
    block,         \* the `with Run(...)` block: position, exception, what the caller sees
    run_lock,      \* Run._lock: the thread that holds it, 0 when free
    callers        \* the threads calling log_configs, log_metrics and close of one Run

vars == <<conn, series_cache, db, tx, call, files, closed, run_pc, close_status,
          now, outcome, reader, nreq, logged, stable, rundir, creating, lock, threads,
          tree, response, sent, util, block, run_lock, callers>>

\* ------------------------------------------------------------------ helpers
Max(S) == CHOOSE x \in S : \A y \in S : y <= x

Range(s) == {s[i] : i \in 1..Len(s)}

NoCall == [op |-> "none", via |-> "none", items |-> <<>>, step |-> 0, ts |-> 0]

EmptyDb ==
    [run_meta |-> {}, configs |-> {}, metric_series |-> {}, metric_points |-> {},
     seq |-> 0]

\* ------------------------------------------------------------------ utils.py
normalize_path(k) ==
    CASE k = "/" -> 0
      [] k = "loss" -> 1
      [] k = "/loss/" -> 1

normalize_config_path(k) ==
    CASE k = "lr" -> "lr"
      [] k = "/lr" -> "lr"
      [] k = "model" -> "model"

serialize_value(v) ==
    CASE v = "f0.001" -> <<"float", "0.001">>
      [] v = "f0.01" -> <<"float", "0.01">>
      [] v = "sresnet" -> <<"str", "resnet">>

\* sqlite3 parameter binding: a float NaN is stored as NULL
Bind(y) == IF y = "nan" THEN NULL ELSE y

\* ------------------------------------------------------------------ utils.py, values
\* A Python value is a record with its type in kind; a str is the sequence of
\* its characters.
None == [kind |-> "NoneType"]

Bool(b) == [kind |-> "bool", b |-> b]

IntOf(n) == [kind |-> "int", n |-> n]

Str(chars) == [kind |-> "str", chars |-> chars]

\* a finite float sign * (int + 0.frac), frac without trailing zeros; -0.0 is
\* Float(TRUE, 0, <<>>)
Float(neg, int, frac) == [kind |-> "float", special |-> "", neg |-> neg, int |-> int, frac |-> frac]

\* nan, inf and -inf
SpecialFloat(neg, name) ==
    [kind |-> "float", special |-> name, neg |-> neg, int |-> 0, frac |-> <<>>]

\* datetime(y, m, d, hh, mm, ss, us, tzinfo): tz is "" for a naive datetime
\* and "+00:00" for timezone.utc
DateTime(date, time, us, tz) ==
    [kind |-> "datetime", date |-> date, time |-> time, us |-> us, tz |-> tz]

StrInputs ==
    {<<>>, <<"0">>, <<"0", ".", "0">>, <<"t", "r", "u", "e">>, <<"F", "a", "l", "s", "e">>,
     <<"n", "a", "n">>, <<"-", "1">>, <<"a">>}

FracInputs == {<<>>, <<5>>, <<2, 5>>, <<0, 1>>}

DateTimeInputs ==
    {DateTime(d, t, us, tz) :
        d \in {<<2025, 1, 15>>, <<987, 12, 3>>}, t \in {<<12, 30, 0>>, <<0, 0, 59>>},
        us \in {0, 500000, 17}, tz \in {"", "+00:00"}}

\* the values of the supported kinds the round trip is checked on
Values ==
    {None} \cup {Bool(b) : b \in BOOLEAN} \cup {IntOf(n) : n \in -MaxInt..MaxInt}
    \cup {Float(neg, n, fr) : neg \in BOOLEAN, n \in 0..MaxFloatInt, fr \in FracInputs}
    \cup {SpecialFloat(FALSE, "nan"), SpecialFloat(FALSE, "inf"), SpecialFloat(TRUE, "inf")}
    \cup {Str(c) : c \in StrInputs}
    \cup DateTimeInputs

Digit == <<"0", "1", "2", "3", "4", "5", "6", "7", "8", "9">>

\* the value of a decimal digit character, -1 for any other character
DigitValue(c) ==
    IF \E i \in 1..10 : Digit[i] = c THEN (CHOOSE i \in 1..10 : Digit[i] = c) - 1 ELSE -1

\* str(n) for n >= 0
RECURSIVE NatStr(_)
NatStr(n) == IF n < 10 THEN <<Digit[n + 1]>> ELSE NatStr(n \div 10) \o <<Digit[(n % 10) + 1]>>

\* str(n) for an int
IntStr(n) == IF n < 0 THEN <<"-">> \o NatStr(-n) ELSE NatStr(n)

\* f"{n:0{w}d}"
RECURSIVE Pad(_, _)
Pad(chars, w) == IF Len(chars) >= w THEN chars ELSE Pad(<<"0">> \o chars, w)

\* the digits of a sequence as characters
DigitChars(ds) == [i \in 1..Len(ds) |-> Digit[ds[i] + 1]]

\* str(x) for a float
FloatStr(x) ==
    (IF x.neg THEN <<"-">> ELSE <<>>)
    \o (IF x.special = "nan" THEN <<"n", "a", "n">>
        ELSE IF x.special = "inf" THEN <<"i", "n", "f">>
        ELSE NatStr(x.int) \o <<".">>
             \o (IF x.frac = <<>> THEN <<"0">> ELSE DigitChars(x.frac)))

\* datetime.isoformat()
IsoFormat(x) ==
    Pad(NatStr(x.date[1]), 4) \o <<"-">> \o Pad(NatStr(x.date[2]), 2) \o <<"-">>
    \o Pad(NatStr(x.date[3]), 2) \o <<"T">> \o Pad(NatStr(x.time[1]), 2) \o <<":">>
    \o Pad(NatStr(x.time[2]), 2) \o <<":">> \o Pad(NatStr(x.time[3]), 2)
    \o (IF x.us = 0 THEN <<>> ELSE <<".">> \o Pad(NatStr(x.us), 6))
    \o (IF x.tz = "" THEN <<>> ELSE <<"+", "0", "0", ":", "0", "0">>)

\* int(chars) for chars of digits
RECURSIVE ParseNat(_)
ParseNat(chars) ==
    IF chars = <<>> THEN 0
    ELSE ParseNat(SubSeq(chars, 1, Len(chars) - 1)) * 10 + DigitValue(chars[Len(chars)])

\* int(raw_value)
ParseInt(chars) ==
    IF chars # <<>> /\ Head(chars) = "-" THEN -ParseNat(Tail(chars)) ELSE ParseNat(chars)

\* the digits after the point without the zeros at the end
RECURSIVE FracDigits(_)
FracDigits(chars) ==
    IF chars = <<>> THEN <<>>
    ELSE IF chars[Len(chars)] = "0" THEN FracDigits(SubSeq(chars, 1, Len(chars) - 1))
    ELSE [i \in 1..Len(chars) |-> DigitValue(chars[i])]

\* float(raw_value)
ParseFloat(chars) ==
    LET neg == chars # <<>> /\ Head(chars) = "-"
        body == IF neg THEN Tail(chars) ELSE chars
        dot == IF \E i \in 1..Len(body) : body[i] = "."
               THEN CHOOSE i \in 1..Len(body) : body[i] = "."
               ELSE Len(body) + 1
    IN  IF body = <<"n", "a", "n">> THEN SpecialFloat(neg, "nan")
        ELSE IF body = <<"i", "n", "f">> THEN SpecialFloat(neg, "inf")
        ELSE Float(neg, ParseNat(SubSeq(body, 1, dot - 1)),
                   FracDigits(SubSeq(body, dot + 1, Len(body))))

\* raw_value.lower()
Lower(chars) ==
    [i \in 1..Len(chars) |->
        CASE chars[i] = "T" -> "t" [] chars[i] = "F" -> "f" [] OTHER -> chars[i]]

\* datetime.fromisoformat(raw_value)
FromIsoFormat(chars) ==
    LET frac == Len(chars) >= 20 /\ chars[20] = "."
        rest == SubSeq(chars, IF frac THEN 27 ELSE 20, Len(chars))
    IN  DateTime(<<ParseNat(SubSeq(chars, 1, 4)), ParseNat(SubSeq(chars, 6, 7)),
                   ParseNat(SubSeq(chars, 9, 10))>>,
                 <<ParseNat(SubSeq(chars, 12, 13)), ParseNat(SubSeq(chars, 15, 16)),
                   ParseNat(SubSeq(chars, 18, 19))>>,
                 IF frac THEN ParseNat(SubSeq(chars, 21, 26)) ELSE 0,
                 IF rest = <<"+", "0", "0", ":", "0", "0">> THEN "+00:00" ELSE "")

\* serialize_value on a value: (type_tag, serialized_string)
serialize_value_chars(value) ==
    IF value.kind = "NoneType" THEN <<"null", <<>>>>
    ELSE IF value.kind = "bool"
    THEN <<"bool", IF value.b THEN <<"t", "r", "u", "e">> ELSE <<"f", "a", "l", "s", "e">>>>
    ELSE IF value.kind = "int" THEN <<"int", IntStr(value.n)>>
    ELSE IF value.kind = "float" THEN <<"float", FloatStr(value)>>
    ELSE IF value.kind = "str" THEN <<"str", value.chars>>
    ELSE <<"datetime", IsoFormat(value)>>

\* a deserialize_value that takes an empty or zero raw value for null
deserialize_value_falsy(type_tag, raw_value) ==
    IF type_tag = "null" \/ raw_value = <<>> THEN None
    ELSE IF type_tag = "bool" THEN Bool(Lower(raw_value) = <<"t", "r", "u", "e">>)
    ELSE IF type_tag = "int" THEN IntOf(ParseInt(raw_value))
    ELSE IF type_tag = "float" THEN ParseFloat(raw_value)
    ELSE IF type_tag = "str" THEN Str(raw_value)
    ELSE FromIsoFormat(raw_value)

\* deserialize_value on a (type_tag, raw_value) that holds a string
deserialize_value_chars(type_tag, raw_value) ==
    IF type_tag = "null" THEN None
    ELSE IF type_tag = "bool" THEN Bool(Lower(raw_value) = <<"t", "r", "u", "e">>)
    ELSE IF type_tag = "int" THEN IntOf(ParseInt(raw_value))
    ELSE IF type_tag = "float" THEN ParseFloat(raw_value)
    ELSE IF type_tag = "str" THEN Str(raw_value)
    ELSE IF type_tag = "datetime" THEN FromIsoFormat(raw_value)
    ELSE Str(raw_value)

NoUtil == [fn |-> "none", arg |-> None, enc |-> <<"null", <<>>>>, out |-> None]

\* tag, raw = serialize_value(value)
SerializeValue ==
    /\ \E v \in Values :
          util' = [fn |-> "serialize_value", arg |-> v, enc |-> serialize_value_chars(v),
                   out |-> None]
    /\ UNCHANGED <<conn, series_cache, db, tx, call, files, closed, run_pc,
                   close_status, now, outcome, reader, nreq, logged, stable,
                   rundir, creating, lock, threads, tree, response, sent, block, run_lock, callers>>

\* result = deserialize_value(tag, raw)
DeserializeValue ==
    /\ util.fn = "serialize_value"
    /\ util' = [util EXCEPT !.fn = "deserialize_value",
                            !.out = deserialize_value_chars(util.enc[1], util.enc[2])]
    /\ UNCHANGED <<conn, series_cache, db, tx, call, files, closed, run_pc,
                   close_status, now, outcome, reader, nreq, logged, stable,
                   rundir, creating, lock, threads, tree, response, sent, block, run_lock, callers>>

\* ------------------------------------------------------------------ utils.py, flatten_dict
\* an object of a type that is not supported
Unsupported == [kind |-> "object"]

\* the trees flatten_dict is given: leaves, lists and dicts
Leaf(v) == [t |-> "leaf", value |-> v]

List(elems) == [t |-> "list", elems |-> elems]

Dict(entries) == [t |-> "dict", entries |-> entries]

Leafs == {Leaf(IntOf(10)), Leaf(IntOf(20)), Leaf(Unsupported)}

\* leaves, lists of two leaves, dicts of one leaf
Level1 ==
    Leafs \cup {List(<<a, b>>) : a, b \in Leafs} \cup {Dict(<<<<"x", a>>>>) : a \in Leafs}

\* and lists and dicts of one list or dict
Level2 ==
    Level1 \cup {List(<<c>>) : c \in Level1 \ Leafs}
           \cup {Dict(<<<<"x", c>>>>) : c \in Level1 \ Leafs}

\* the dicts flatten_dict is called on
TreeInputs ==
    {Dict(<<<<"a", c>>>>) : c \in Level2}
    \cup {Dict(<<<<"a", c>>, <<"b", l>>>>) : c \in Level1, l \in Leafs}

\* is_supported_type
is_supported_type(v) == v.kind \in {"bool", "int", "float", "str", "datetime", "NoneType"}

\* cast_to_string: str(value); the text of an object or of a list is not
\* spelled out
cast_to_string(node) ==
    IF node.t = "list" THEN Str(<<"[", "]">>) ELSE Str(<<"<", "o", "b", "j", ">">>)

\* f"{parent_key}{sep}{key}" if parent_key else key
NewKey(parent_key, key) == IF parent_key = "" THEN key ELSE parent_key \o "/" \o key

NoItems == [raised |-> FALSE, items |-> <<>>]

TypeError == [raised |-> TRUE, items |-> <<>>]

\* items.extend(...) / items.append(...) unless an exception is on its way
Extend(done, more) ==
    IF done.raised \/ more.raised THEN TypeError
    ELSE [raised |-> FALSE, items |-> done.items \o more.items]

RECURSIVE FlattenEntries(_, _, _)
RECURSIVE FlattenElems(_, _, _, _)

\* for i, item in enumerate(value): of the elements from position i on
FlattenElems(elems, i, new_key, cast_unsupported) ==
    IF i > Len(elems) THEN NoItems
    ELSE LET item == elems[i]
             item_key == new_key \o "/" \o ToString(i - 1)
             first == IF item.t = "dict"
                      THEN FlattenEntries(item.entries, item_key, cast_unsupported)
                      ELSE IF item.t = "leaf" /\ is_supported_type(item.value)
                      THEN [raised |-> FALSE, items |-> <<<<item_key, item.value>>>>]
                      ELSE IF cast_unsupported
                      THEN [raised |-> FALSE, items |-> <<<<item_key, cast_to_string(item)>>>>]
                      ELSE TypeError
         IN  IF first.raised THEN TypeError
             ELSE Extend(first, FlattenElems(elems, i + 1, new_key, cast_unsupported))

\* for key, value in data.items(): of the entries of a dict
FlattenEntries(entries, parent_key, cast_unsupported) ==
    IF entries = <<>> THEN NoItems
    ELSE LET value == Head(entries)[2]
             new_key == NewKey(parent_key, Head(entries)[1])
             first == IF value.t = "dict"
                      THEN FlattenEntries(value.entries, new_key, cast_unsupported)
                      ELSE IF value.t = "list"
                      THEN FlattenElems(value.elems, 1, new_key, cast_unsupported)
                      ELSE IF is_supported_type(value.value)
                      THEN [raised |-> FALSE, items |-> <<<<new_key, value.value>>>>]
                      ELSE IF cast_unsupported
                      THEN [raised |-> FALSE, items |-> <<<<new_key, cast_to_string(value)>>>>]
                      ELSE TypeError
         IN  IF first.raised THEN TypeError
             ELSE Extend(first, FlattenEntries(Tail(entries), parent_key, cast_unsupported))

\* dict(items): the pairs, the last one of a key kept
DictOf(items) ==
    {items[i] : i \in {k \in 1..Len(items) :
                          \A j \in (k + 1)..Len(items) : items[j][1] # items[k][1]}}

\* flatten_dict(data, cast_unsupported=...): TypeError, or the flat dict
flatten_dict(data, cast_unsupported) ==
    LET r == FlattenEntries(data.entries, "", cast_unsupported)
    IN  [raised |-> r.raised, dict |-> DictOf(r.items)]

\* result = flatten_dict(data, cast_unsupported=...)
FlattenDict ==
    /\ \E data \in TreeInputs, cast_unsupported \in BOOLEAN :
          util' = [fn |-> "flatten_dict", arg |-> data, cast |-> cast_unsupported,
                   out |-> flatten_dict(data, cast_unsupported)]
    /\ UNCHANGED <<conn, series_cache, db, tx, call, files, closed, run_pc,
                   close_status, now, outcome, reader, nreq, logged, stable,
                   rundir, creating, lock, threads, tree, response, sent, block, run_lock, callers>>

\* ------------------------------------------------------------------ SQL statements
\* INSERT OR REPLACE INTO run_meta (key, value): PRIMARY KEY key
ReplaceMeta(d, key, value) ==
    [d EXCEPT !.run_meta =
        {r \in @ : r.key # key} \cup {[key |-> key, value |-> value]}]

\* INSERT OR IGNORE in place of INSERT OR REPLACE: the first value stays
IgnoreConfig(d, row) ==
    IF \E r \in d.configs : r.path = row.path
    THEN d
    ELSE [d EXCEPT !.configs = @ \cup {row}]

\* INSERT OR REPLACE INTO configs: PRIMARY KEY path
ReplaceConfig(d, row) ==
    [d EXCEPT !.configs = {r \in @ : r.path # row.path} \cup {row}]

\* a metric_points table without its PRIMARY KEY: every write adds a row
AppendPoint(d, row) ==
    [d EXCEPT !.metric_points = @ \cup {row}]

\* INSERT OR REPLACE INTO metric_points: PRIMARY KEY (series_id, step)
ReplacePoint(d, row) ==
    [d EXCEPT !.metric_points =
        {r \in @ : ~(r.series_id = row.series_id /\ r.step = row.step)} \cup {row}]

\* INSERT OR IGNORE INTO metric_series (path): path UNIQUE, id AUTOINCREMENT.
\* The new id is one more than the largest id ever used, which sqlite_sequence
\* (part of the database, so part of the transaction) records.
InsertOrIgnoreSeries(d, path) ==
    IF \E s \in d.metric_series : s.path = path
    THEN d
    ELSE LET id == Max({d.seq} \cup {s.id : s \in d.metric_series}) + 1
         IN  [d EXCEPT !.metric_series = @ \cup {[id |-> id, path |-> path]},
                       !.seq = id]

\* SELECT id FROM metric_series WHERE path = ?
SelectSeriesId(d, path) ==
    (CHOOSE s \in d.metric_series : s.path = path).id

\* SELECT s.path, p.step, p.y, p.ts FROM metric_points p JOIN metric_series s
\* ON p.series_id = s.id
JoinPoints(d) ==
    {[path |-> s.path, step |-> p.step, y |-> p.y, ts |-> p.ts] :
        <<p, s>> \in {ps \in d.metric_points \X d.metric_series :
                         ps[1].series_id = ps[2].id}}

\* ORDER BY p.ts in place of ORDER BY p.step
RowBeforeByTs(a, b, by) == a.ts < b.ts

RowBefore(a, b, by) ==
    IF by = "step"
    THEN a.step < b.step
    ELSE a.path < b.path \/ (a.path = b.path /\ a.step < b.step)

\* ORDER BY p.step  /  ORDER BY s.path, p.step
RECURSIVE OrderBy(_, _)
OrderBy(rows, by) ==
    IF rows = {}
    THEN <<>>
    ELSE LET first == CHOOSE r \in rows : \A o \in rows : ~RowBefore(o, r, by)
         IN  <<first>> \o OrderBy(rows \ {first}, by)

\* the two SELECTs of get_metric_points and of the server's _get_metrics;
\* `if path:` takes the unfiltered branch for None and for the empty string
SelectPoints(d, path) ==
    IF path # NoPath /\ path # 0
    THEN OrderBy({r \in JoinPoints(d) : r.path = path}, "step")
    ELSE OrderBy(JoinPoints(d), "path,step")

\* SELECT DISTINCT s.path ... JOIN ... ORDER BY s.path
RECURSIVE SortedPaths(_)
SortedPaths(S) ==
    IF S = {}
    THEN <<>>
    ELSE LET m == CHOOSE x \in S : \A y \in S : x <= y
         IN  <<m>> \o SortedPaths(S \ {m})

SelectPaths(d) == SortedPaths({r.path : r \in JoinPoints(d)})

\* SELECT path, type_tag, value FROM configs, as {path: (type_tag, value)}
SelectConfigs(d) ==
    {[path |-> r.path, type_tag |-> r.type_tag, value |-> r.value] : r \in d.configs}

SelectMeta(d, key) ==
    IF \E r \in d.run_meta : r.key = key
    THEN (CHOOSE r \in d.run_meta : r.key = key).value
    ELSE NULL

\* ------------------------------------------------------------------ storage.py
\* a method without the `if self._conn is None` check
StorageNeverClosed == FALSE

\* `if self._conn is None: raise RuntimeError("Storage is closed")`
StorageIsClosed == conn = "closed"

\* a _transaction that commits in a finally clause: no rollback
TransactionExitCommits(raised) == tx

\* the exit of `with self._transaction()`: commit when the block ended
\* normally, rollback when it raised; the result is the committed database
TransactionExit(raised) == IF raised THEN db ELSE tx

\* a _get_series_id that inserts a row each time: no cache, no OR IGNORE and
\* no UNIQUE path
get_series_id_always_insert(d, cache, path) ==
    LET id == Max({d.seq} \cup {s.id : s \in d.metric_series}) + 1
    IN  [sid |-> id,
         db |-> [d EXCEPT !.metric_series = @ \cup {[id |-> id, path |-> path]},
                          !.seq = id],
         cache |-> (path :> id) @@ cache]

\* LocalStorage._get_series_id: the cached id, or INSERT OR IGNORE + SELECT
\* inside the open transaction and then cache the id
get_series_id(d, cache, path) ==
    IF path \in DOMAIN cache
    THEN [sid |-> cache[path], db |-> d, cache |-> cache]
    ELSE LET d2 == InsertOrIgnoreSeries(d, path)
             sid == SelectSeriesId(d2, path)
         IN  [sid |-> sid, db |-> d2, cache |-> (path :> sid) @@ cache]

\* LocalStorage.get_metric_points / get_metric_paths / get_configs / get_meta:
\* the value returned, or the error raised
get_metric_points(path) ==
    IF StorageIsClosed THEN "Storage is closed" ELSE SelectPoints(tx, path)

get_metric_paths == IF StorageIsClosed THEN "Storage is closed" ELSE SelectPaths(tx)

get_configs == IF StorageIsClosed THEN "Storage is closed" ELSE SelectConfigs(tx)

get_meta(key) == IF StorageIsClosed THEN "Storage is closed" ELSE SelectMeta(tx, key)

\* the producer thread is between two calls
Idle == call.op = "none" /\ run_pc = "idle"

CanCall == Idle /\ now < MaxCalls

\* a server request holds the run file open through its connection
ReaderAttached == reader.pc \in {"reading", "fetched"}

\* the API method the producer called
CallName ==
    IF call.via = "storage" THEN call.op
    ELSE IF call.op = "log_configs" THEN "Run.log_configs" ELSE "Run.log_metrics"

\* datetime.isoformat()
isoformat(t) == "T" \o ToString(t)

\* a connection with the rollback journal SQLite uses by default
journal_mode_delete == "delete"

\* _get_connection: PRAGMA journal_mode=WAL
journal_mode == "wal"

\* COMMIT of a write: in WAL mode it needs no lock a reader holds; with a
\* rollback journal it needs the EXCLUSIVE lock, which a request inside its
\* read transaction keeps away, and raises "database is locked" when
\* busy_timeout expires
CommitLocked == journal_mode # "wal" /\ reader.pc = "reading"

\* a call returns: its name, its result, the number of statements of its
\* loop that succeeded and the time it was made at, and the database as the
\* call leaves it
Return(op, res, d, at) ==
    /\ outcome' = [op |-> op, res |-> res, n |-> Len(call.items), at |-> at]
    /\ db' = d
    /\ tx' = d
    /\ stable' = d
    /\ call' = NoCall

\* a committed transaction that changed something appends frames to the WAL
Written(d) ==
    IF d # db THEN [files EXCEPT !.wal = "frames"] ELSE files

\* LocalStorage.set_meta
set_meta(key, value) ==
    /\ CanCall
    /\ now' = now + 1
    /\ IF StorageIsClosed
       THEN /\ Return("set_meta", "Storage is closed", db, now + 1)
            /\ UNCHANGED files
       ELSE IF CommitLocked
       THEN /\ Return("set_meta", "database is locked", db, now + 1)
            /\ UNCHANGED files
       ELSE LET d == ReplaceMeta(tx, key, value)
            IN  /\ Return("set_meta", "ok", d, now + 1)
                /\ files' = Written(d)
    /\ UNCHANGED <<conn, series_cache, closed, run_pc, close_status, reader, nreq, logged,
                   rundir, creating, lock, threads,
                   tree, response, sent, util, block, run_lock, callers>>

\* LocalStorage.get_meta, get_configs, get_metric_points, get_metric_paths
Get(op) ==
    /\ CanCall
    /\ now' = now + 1
    /\ outcome' = [op |-> op, n |-> 0, at |-> now + 1,
                   res |-> IF StorageIsClosed THEN "Storage is closed" ELSE "ok"]
    /\ UNCHANGED <<conn, series_cache, db, tx, call, files, closed, run_pc,
                   close_status, reader, nreq, logged, stable,
                   rundir, creating, lock, threads,
                   tree, response, sent, util, block, run_lock, callers>>

\* entering `with self._transaction()` of log_configs / log_metric_points
BeginTransaction(name, op, via, step) ==
    /\ now' = now + 1
    /\ IF StorageIsClosed
       THEN Return(name, "Storage is closed", db, now + 1)
       ELSE /\ call' = [op |-> op, via |-> via, items |-> <<>>, step |-> step,
                        ts |-> now + 1]
            /\ UNCHANGED <<outcome, db, tx, stable>>
    /\ UNCHANGED <<conn, series_cache, files, closed, run_pc, close_status, reader,
                   nreq, logged,
                   rundir, creating, lock, threads,
                   tree, response, sent, util, block, run_lock, callers>>

log_configs_begin ==
    /\ CanCall
    /\ BeginTransaction("log_configs", "log_configs", "storage", 0)

log_metric_points_begin ==
    /\ CanCall
    /\ BeginTransaction("log_metric_points", "log_metric_points", "storage", 0)

\* one iteration of log_configs' loop: INSERT OR REPLACE INTO configs.
\* A NULL type_tag violates NOT NULL: the statement raises, _transaction
\* rolls back and re-raises.
ConfigStatement(path, type_tag, value) ==
    LET row == [path |-> path, type_tag |-> type_tag, value |-> value,
                updated_at |-> isoformat(call.ts)]
    IN  /\ Len(call.items) < MaxBatch
        /\ \A i \in 1..Len(call.items) : call.items[i].path # path
        /\ IF type_tag = NULL
           THEN /\ Return(CallName, "IntegrityError", TransactionExit(TRUE), call.ts)
                /\ files' = Written(TransactionExit(TRUE))
           ELSE /\ tx' = ReplaceConfig(tx, row)
                /\ call' = [call EXCEPT !.items =
                               Append(@, [path |-> path, type_tag |-> type_tag,
                                          value |-> value])]
                /\ UNCHANGED <<db, outcome, stable, files>>
        /\ UNCHANGED <<conn, series_cache, closed, run_pc, close_status, now, reader,
                       nreq, logged,
                   rundir, creating, lock, threads,
                   tree, response, sent, util, block, run_lock, callers>>

log_configs_step(paths, inputs) ==
    /\ call.op = "log_configs"
    /\ call.via = "storage"
    /\ \E path \in paths, e \in inputs : ConfigStatement(path, e[1], e[2])

\* one iteration of log_metric_points' loop: _get_series_id, then
\* INSERT OR REPLACE INTO metric_points.  A NULL y violates NOT NULL.
PointStatement(path, step, y, ts) ==
    LET got == get_series_id(tx, series_cache, path)
        row == [series_id |-> got.sid, step |-> step, y |-> Bind(y), ts |-> ts]
    IN  /\ Len(call.items) < MaxBatch
        /\ series_cache' = got.cache
        /\ IF row.y = NULL
           THEN /\ Return(CallName, "IntegrityError", TransactionExit(TRUE), call.ts)
                /\ files' = Written(TransactionExit(TRUE))
           ELSE /\ tx' = ReplacePoint(got.db, row)
                /\ call' = [call EXCEPT !.items =
                               Append(@, [path |-> path, step |-> step,
                                          y |-> Bind(y), ts |-> ts])]
                /\ UNCHANGED <<db, outcome, stable, files>>
        /\ UNCHANGED <<conn, closed, run_pc, close_status, now, reader, nreq, logged,
                   rundir, creating, lock, threads,
                   tree, response, sent, util, block, run_lock, callers>>

log_metric_points_step(inputs) ==
    /\ call.op = "log_metric_points"
    /\ call.via = "storage"
    /\ \E pt \in inputs : PointStatement(pt[1], pt[2], pt[3], pt[4])

\* the points of a successful call, applied in order to the history of what
\* was logged: a later point for the same (path, step) replaces the earlier
RECURSIVE Log(_, _)
Log(L, items) ==
    IF items = <<>>
    THEN L
    ELSE Log({r \in L : ~(r.path = Head(items).path /\ r.step = Head(items).step)}
                 \cup {Head(items)},
             Tail(items))

\* the loop is over: the with-block ends normally and _transaction commits
transaction_commit ==
    /\ call.op \in {"log_configs", "log_metric_points"}
    /\ IF CommitLocked
       THEN /\ Return(CallName, "database is locked", TransactionExit(TRUE), call.ts)
            /\ UNCHANGED <<files, logged>>
       ELSE /\ Return(CallName, "ok", TransactionExit(FALSE), call.ts)
            /\ files' = Written(TransactionExit(FALSE))
            /\ logged' = IF call.op = "log_metric_points"
                          THEN Log(logged, call.items)
                          ELSE logged
    /\ UNCHANGED <<conn, series_cache, closed, run_pc, close_status, now, reader, nreq,
                   rundir, creating, lock, threads,
                   tree, response, sent, util, block, run_lock, callers>>

\* PRAGMA wal_checkpoint(TRUNCATE): the WAL is emptied unless a reader is
\* inside a read transaction; then the pragma waits for busy_timeout and
\* returns a busy row, which the code does not look at
Checkpoint == IF reader.pc = "reading" THEN files ELSE [files EXCEPT !.wal = "empty"]

\* sqlite3 Connection.close(): the last connection to leave a WAL database
\* checkpoints it and unlinks the -wal and -shm files; with another
\* connection attached the files stay
ConnClose ==
    IF ReaderAttached THEN files ELSE [sqlite |-> TRUE, wal |-> "absent", shm |-> FALSE]

\* LocalStorage.checkpoint_wal
checkpoint_wal ==
    /\ CanCall
    /\ now' = now + 1
    /\ outcome' = [op |-> "checkpoint_wal", n |-> 0, at |-> now + 1,
                   res |-> IF StorageIsClosed THEN "Storage is closed" ELSE "ok"]
    /\ files' = IF StorageIsClosed THEN files ELSE Checkpoint
    /\ UNCHANGED <<conn, series_cache, db, tx, call, closed, run_pc, close_status,
                   reader, nreq, logged, stable,
                   rundir, creating, lock, threads,
                   tree, response, sent, util, block, run_lock, callers>>

\* LocalStorage.close
close ==
    /\ CanCall
    /\ now' = now + 1
    /\ outcome' = [op |-> "close", res |-> "ok", n |-> 0, at |-> now + 1]
    /\ conn' = "closed"
    /\ files' = IF StorageIsClosed THEN files ELSE ConnClose
    /\ UNCHANGED <<series_cache, db, tx, call, closed, run_pc, close_status, reader,
                   nreq, logged, stable,
                   rundir, creating, lock, threads,
                   tree, response, sent, util, block, run_lock, callers>>

\* LocalStorage.delete_db_file: close(), then the .sqlite, -wal and -shm
\* files are unlinked
delete_db_file ==
    /\ CanCall
    /\ now' = now + 1
    /\ outcome' = [op |-> "delete_db_file", res |-> "ok", n |-> 0, at |-> now + 1]
    /\ conn' = "closed"
    /\ files' = [sqlite |-> FALSE, wal |-> "absent", shm |-> FALSE]
    /\ db' = EmptyDb
    /\ tx' = EmptyDb
    /\ stable' = EmptyDb
    /\ UNCHANGED <<series_cache, call, closed, run_pc, close_status, reader,
                   nreq, logged, rundir, creating, lock, threads,
                   tree, response, sent, util, block, run_lock, callers>>

\* ------------------------------------------------------------------ storage.py, __init__
\* a database file without tables: what sqlite3.connect makes of a path with
\* no file
NoTables == [seq |-> 0]

\* what a new connection finds at db_path
DiskFile == IF files.sqlite THEN db ELSE NoTables

\* a schema script that leaves a new file without tables
init_schema_none(d) == d

\* a schema script that creates the tables anew (CREATE TABLE without
\* IF NOT EXISTS after DROP TABLE)
init_schema_recreate(d) == EmptyDb

\* _init_schema: CREATE TABLE IF NOT EXISTS of the four tables, and commit
init_schema(d) ==
    [run_meta |-> IF "run_meta" \in DOMAIN d THEN d.run_meta ELSE {},
     configs |-> IF "configs" \in DOMAIN d THEN d.configs ELSE {},
     metric_series |-> IF "metric_series" \in DOMAIN d THEN d.metric_series ELSE {},
     metric_points |-> IF "metric_points" \in DOMAIN d THEN d.metric_points ELSE {},
     seq |-> d.seq]

\* LocalStorage(db_path) once the store before it is closed: ensure_dir,
\* _get_connection (the file is created when absent, WAL mode) and
\* _init_schema; the new object starts with an empty series cache
LocalStorage_init ==
    /\ CanCall
    /\ StorageIsClosed
    /\ now' = now + 1
    /\ LET d == init_schema(DiskFile)
       IN  /\ db' = d
           /\ tx' = d
           /\ stable' = d
           /\ files' = [sqlite |-> TRUE,
                        wal |-> IF ~files.sqlite THEN "frames"
                                ELSE IF files.wal = "absent" THEN "empty" ELSE files.wal,
                        shm |-> TRUE]
    /\ conn' = "open"
    /\ series_cache' = <<>>
    /\ outcome' = [op |-> "LocalStorage.__init__", res |-> "ok", n |-> 0, at |-> now + 1]
    /\ UNCHANGED <<call, closed, run_pc, close_status, reader, nreq, logged,
                   rundir, creating, lock, threads, tree, response, sent, util, block, run_lock, callers>>

\* ------------------------------------------------------------------ run.py
\* a method without the `if self._closed` check
RunNeverClosed == FALSE

\* `if self._closed: raise RuntimeError("Run is closed")` in log_configs and
\* log_metrics, `if self._closed: return` in close
RunIsClosed == closed

\* Run.log_configs / Run.log_metrics up to the call into the storage
RunBegin(name, op, step) ==
    /\ CanCall
    /\ IF RunIsClosed
       THEN /\ now' = now + 1
            /\ outcome' = [op |-> name, res |-> "Run is closed", n |-> 0, at |-> now + 1]
            /\ UNCHANGED <<conn, series_cache, db, tx, call, files, closed, run_pc,
                           close_status, reader, nreq, logged, stable,
                   rundir, creating, lock, threads,
                   tree, response, sent, util, block, run_lock, callers>>
       ELSE BeginTransaction(name, op, "run", step)

Run_log_configs_begin == RunBegin("Run.log_configs", "log_configs", 0)

Run_log_metrics_begin == \E step \in Steps : RunBegin("Run.log_metrics", "log_metric_points", step)

\* Run.log_configs: normalize_path and serialize_value each entry, then the
\* storage's loop over the serialized dict
Run_log_configs_step(keys, values) ==
    /\ call.op = "log_configs"
    /\ call.via = "run"
    /\ \E k \in keys, v \in values :
          ConfigStatement(normalize_config_path(k), serialize_value(v)[1],
                          serialize_value(v)[2])

\* Run.log_metrics: every point of the call has the call's step and wall time
Run_log_metrics_step(keys, ys) ==
    /\ call.op = "log_metric_points"
    /\ call.via = "run"
    /\ \E k \in keys, y \in ys :
          PointStatement(normalize_path(k), call.step, y, call.ts)

\* Run.close(status) up to the release of the Run lock
Run_close_begin ==
    /\ CanCall
    /\ now' = now + 1
    /\ \E status \in CloseStatusArgs :
          IF RunIsClosed
          THEN /\ outcome' = [op |-> "Run.close", res |-> "ok", n |-> 0, at |-> now + 1]
               /\ UNCHANGED <<closed, run_pc, close_status>>
          ELSE /\ closed' = TRUE
               /\ run_pc' = "set_status"
               /\ close_status' = status
               /\ UNCHANGED outcome
    /\ UNCHANGED <<conn, series_cache, db, tx, call, files, reader, nreq, logged, stable,
                   rundir, creating, lock, threads,
                   tree, response, sent, util, block, run_lock, callers>>

\* a storage call of Run.close raised: Run.close raises
RunCloseRaises(res) ==
    /\ outcome' = [op |-> "Run.close", res |-> res, n |-> 0, at |-> now]
    /\ run_pc' = "idle"
    /\ UNCHANGED <<db, tx, stable, files, conn>>

\* self._storage.set_meta("status", status) and
\* self._storage.set_meta("closed_at", datetime.now(timezone.utc).isoformat())
Run_close_set_meta ==
    /\ run_pc \in {"set_status", "set_closed_at"}
    /\ IF StorageIsClosed
       THEN RunCloseRaises("Storage is closed")
       ELSE IF CommitLocked
       THEN RunCloseRaises("database is locked")
       ELSE LET d == IF run_pc = "set_status"
                     THEN ReplaceMeta(tx, "status", close_status)
                     ELSE ReplaceMeta(tx, "closed_at", isoformat(now))
            IN  /\ db' = d
                /\ tx' = d
                /\ stable' = d
                /\ files' = Written(d)
                /\ run_pc' = IF run_pc = "set_status" THEN "set_closed_at" ELSE "checkpoint"
                /\ UNCHANGED <<outcome, conn>>
    /\ UNCHANGED <<series_cache, call, closed, close_status, now, reader, nreq, logged,
                   rundir, creating, lock, threads,
                   tree, response, sent, util, block, run_lock, callers>>

\* self._storage.checkpoint_wal()
Run_close_checkpoint ==
    /\ run_pc = "checkpoint"
    /\ IF StorageIsClosed
       THEN RunCloseRaises("Storage is closed")
       ELSE /\ files' = Checkpoint
            /\ run_pc' = "close"
            /\ UNCHANGED <<outcome, conn, db, tx, stable>>
    /\ UNCHANGED <<series_cache, call, closed, close_status, now, reader, nreq, logged,
                   rundir, creating, lock, threads,
                   tree, response, sent, util, block, run_lock, callers>>

\* self._storage.close(), and Run.close returns
Run_close_close ==
    /\ run_pc = "close"
    /\ conn' = "closed"
    /\ files' = IF StorageIsClosed THEN files ELSE ConnClose
    /\ run_pc' = "idle"
    /\ outcome' = [op |-> "Run.close", res |-> "ok", n |-> 0, at |-> now]
    /\ UNCHANGED <<series_cache, db, tx, call, closed, close_status, now, reader, nreq,
                   logged, stable,
                   rundir, creating, lock, threads,
                   tree, response, sent, util, block, run_lock, callers>>

\* ------------------------------------------------------------------ run.py, with Run(...)
\* an exception the block may end with
BlockExceptions == {"None", "ValueError"}

NoBlock == [pc |-> "out", exc_type |-> "None", was_closed |-> FALSE, raised |-> "None"]

\* Run.__enter__: return self
Run_enter ==
    /\ block.pc = "out"
    /\ Idle
    /\ run_pc = "idle"
    /\ block' = [block EXCEPT !.pc = "in"]
    /\ UNCHANGED <<conn, series_cache, db, tx, call, files, closed, run_pc,
                   close_status, now, outcome, reader, nreq, logged, stable,
                   rundir, creating, lock, threads, tree, response, sent, util, run_lock, callers>>

\* an __exit__ that reports every block as finished
exit_status_finished(exc_type) == "finished"

\* status = "failed" if exc_type is not None else "finished"
exit_status(exc_type) == IF exc_type # "None" THEN "failed" ELSE "finished"

\* Run.__exit__(exc_type, ...) at the end of the block, up to the release of
\* the Run lock inside self.close(status=status)
Run_exit ==
    /\ block.pc = "in"
    /\ Idle
    /\ run_pc = "idle"
    /\ now' = now + 1
    /\ \E exc_type \in BlockExceptions :
          IF RunIsClosed
          THEN /\ block' = [pc |-> "done", exc_type |-> exc_type, was_closed |-> TRUE,
                            raised |-> exc_type]
               /\ UNCHANGED <<closed, run_pc, close_status>>
          ELSE /\ closed' = TRUE
               /\ run_pc' = "set_status"
               /\ close_status' = exit_status(exc_type)
               /\ block' = [pc |-> "exiting", exc_type |-> exc_type, was_closed |-> FALSE,
                            raised |-> "None"]
    /\ UNCHANGED <<conn, series_cache, db, tx, call, files, outcome, reader, nreq,
                   logged, stable, rundir, creating, lock, threads, tree, response,
                   sent, util, run_lock, callers>>

\* Run.__exit__ returns None after self.close returned: the exception of the
\* block goes on to the caller; an exception of close replaces it
Run_exit_return ==
    /\ block.pc = "exiting"
    /\ run_pc = "idle"
    /\ block' = [block EXCEPT !.pc = "done",
                              !.raised = IF outcome.res # "ok" THEN outcome.res
                                         ELSE block.exc_type]
    /\ UNCHANGED <<conn, series_cache, db, tx, call, files, closed, run_pc,
                   close_status, now, outcome, reader, nreq, logged, stable,
                   rundir, creating, lock, threads, tree, response, sent, util, run_lock, callers>>

\* ------------------------------------------------------------------ threads
\* a lock that excludes nobody
LockIgnored(t) == TRUE

\* `with self._lock`: the RLock can be taken when it is free or the thread
\* holds it already
LockFree(t) == lock \in {0, t}

\* a thread that is not inside a LocalStorage call
Outside ==
    [pc |-> "out", op |-> "none", items |-> <<>>, calls |-> 0, waited |-> FALSE,
     res |-> "none", base |-> EmptyDb, cache |-> <<>>]

\* the statements each mutating method may execute
StatementsOf(op) ==
    CASE op = "set_meta" -> MetaStatements
      [] op = "log_configs" -> ConfigStatements
      [] op = "log_metric_points" -> PointStatements

\* one statement executed on the connection: the database and the cache it
\* leaves, and whether it raised (NOT NULL violated)
Execute(d, cache, st) ==
    CASE st.kind = "meta" ->
           [db |-> ReplaceMeta(d, st.key, st.value), cache |-> cache, raised |-> FALSE]
      [] st.kind = "config" ->
           IF st.type_tag = NULL
           THEN [db |-> d, cache |-> cache, raised |-> TRUE]
           ELSE [db |-> ReplaceConfig(d, [path |-> st.path, type_tag |-> st.type_tag,
                                          value |-> st.value, updated_at |-> isoformat(0)]),
                 cache |-> cache, raised |-> FALSE]
      [] st.kind = "point" ->
           LET got == get_series_id(d, cache, st.path)
           IN  IF Bind(st.y) = NULL
               THEN [db |-> got.db, cache |-> got.cache, raised |-> TRUE]
               ELSE [db |-> ReplacePoint(got.db, [series_id |-> got.sid, step |-> st.step,
                                                  y |-> Bind(st.y), ts |-> st.ts]),
                     cache |-> got.cache, raised |-> FALSE]

\* a thread calls set_meta, log_configs or log_metric_points and arrives at
\* `with self._lock` of _transaction
Thread_call(t) ==
    /\ threads[t].pc = "out"
    /\ threads[t].calls < MaxThreadCalls
    /\ \E op \in {"set_meta", "log_configs", "log_metric_points"} :
          threads' = [threads EXCEPT ![t] =
              [Outside EXCEPT !.pc = "waiting", !.op = op, !.calls = threads[t].calls + 1,
                              !.waited = lock # 0]]
    /\ UNCHANGED <<conn, series_cache, db, tx, call, files, closed, run_pc, close_status,
                   now, outcome, reader, nreq, logged, stable, rundir, creating, lock,
                   tree, response, sent, util, block, run_lock, callers>>

\* the thread takes the lock and enters the transaction, or finds the store
\* closed, raises and releases the lock
Thread_enter(t) ==
    /\ threads[t].pc = "waiting"
    /\ LockFree(t)
    /\ IF StorageIsClosed
       THEN /\ threads' = [threads EXCEPT ![t].pc = "out", ![t].res = "Storage is closed"]
            /\ UNCHANGED lock
       ELSE /\ threads' = [threads EXCEPT ![t].pc = "in", ![t].base = db,
                                          ![t].cache = series_cache]
            /\ lock' = t
    /\ UNCHANGED <<conn, series_cache, db, tx, call, files, closed, run_pc, close_status,
                   now, outcome, reader, nreq, logged, stable, rundir, creating,
                   tree, response, sent, util, block, run_lock, callers>>

\* one statement of the call's with-block on the shared connection; a
\* statement that raises ends the call: rollback, the lock is released
Thread_statement(t) ==
    /\ threads[t].pc = "in"
    /\ Len(threads[t].items) < (IF threads[t].op = "set_meta" THEN 1 ELSE MaxBatch)
    /\ \E st \in StatementsOf(threads[t].op) :
          LET done == Execute(tx, series_cache, st)
          IN  /\ series_cache' = done.cache
              /\ IF done.raised
                 THEN /\ tx' = db
                      /\ lock' = 0
                      /\ threads' = [threads EXCEPT ![t].pc = "out",
                                                     ![t].res = "IntegrityError"]
                 ELSE /\ tx' = done.db
                      /\ UNCHANGED lock
                      /\ threads' = [threads EXCEPT ![t].items = Append(@, st)]
    /\ UNCHANGED <<conn, db, call, files, closed, run_pc, close_status, now, outcome,
                   reader, nreq, logged, stable, rundir, creating,
                   tree, response, sent, util, block, run_lock, callers>>

\* the with-block ends: self._conn.commit(), the lock is released
Thread_commit(t) ==
    /\ threads[t].pc = "in"
    /\ threads[t].op = "set_meta" => Len(threads[t].items) = 1
    /\ db' = tx
    /\ stable' = tx
    /\ files' = Written(tx)
    /\ lock' = 0
    /\ threads' = [threads EXCEPT ![t].pc = "out", ![t].res = "ok"]
    /\ UNCHANGED <<conn, series_cache, tx, call, closed, run_pc, close_status, now,
                   outcome, reader, nreq, logged, rundir, creating,
                   tree, response, sent, util, block, run_lock, callers>>

\* ------------------------------------------------------------------ run.py, threads
\* a thread that is not inside a call of the Run
NoCaller ==
    [pc |-> "out", op |-> "none", status |-> "none", res |-> "none", calls |-> 0,
     items |-> <<>>]

\* the statements a call of the Run executes in its transaction
RunStatementsOf(op) ==
    CASE op = "log_configs" ->
           {[kind |-> "config", path |-> "lr", type_tag |-> "float", value |-> "0.001"]}
      [] op = "log_metrics" ->
           {[kind |-> "point", path |-> 1, step |-> 1, y |-> "0.9", ts |-> 100]}

\* a Run whose methods all leave `with self._lock` before they call the
\* storage
ReleasedBeforeStorageAlways(op) == TRUE

\* close leaves `with self._lock` before it calls the storage; log_configs
\* and log_metrics call the storage inside it
ReleasedBeforeStorage(op) == op = "close"

\* a `with self._lock` of the storage that is left without releasing the lock
StorageLockKept(t) == t

\* the storage lock once thread t has left `with self._lock`
StorageLockReleased(t) == 0

\* the Run lock once thread t has left `with self._lock` of its method
RunLockReleased(t) == IF run_lock = t THEN 0 ELSE run_lock

\* a thread calls log_configs, log_metrics or close(status) and arrives at
\* `with self._lock` of the Run
Run_thread_call(t) ==
    /\ callers[t].pc = "out"
    /\ callers[t].calls < MaxThreadCalls
    /\ \E op \in {"log_configs", "log_metrics", "close"} :
       \E status \in IF op = "close" THEN {"finished", "failed"} ELSE {"none"} :
          callers' = [callers EXCEPT ![t] =
              [NoCaller EXCEPT !.pc = "run_wait", !.op = op, !.status = status,
                               !.calls = callers[t].calls + 1]]
    /\ UNCHANGED <<conn, series_cache, db, tx, call, files, closed, run_pc, close_status,
                   now, outcome, reader, nreq, logged, stable, rundir, creating, lock,
                   threads, tree, response, sent, util, block, run_lock>>

\* the thread takes the Run lock and tests self._closed: log_configs and
\* log_metrics raise on a closed Run and go on to the storage otherwise;
\* close returns on a closed Run and sets self._closed otherwise
Run_thread_enter(t) ==
    /\ callers[t].pc = "run_wait"
    /\ run_lock \in {0, t}
    /\ IF callers[t].op = "close"
       THEN /\ run_lock' = 0
            /\ closed' = TRUE
            /\ callers' = IF closed
                          THEN [callers EXCEPT ![t].pc = "out", ![t].res = "ok"]
                          ELSE [callers EXCEPT ![t].pc = "set_status"]
       ELSE /\ UNCHANGED closed
            /\ IF closed
               THEN /\ run_lock' = 0
                    /\ callers' = [callers EXCEPT ![t].pc = "out",
                                                  ![t].res = "Run is closed"]
               ELSE /\ run_lock' = IF ReleasedBeforeStorage(callers[t].op) THEN 0 ELSE t
                    /\ callers' = [callers EXCEPT ![t].pc = "storage_wait"]
    /\ UNCHANGED <<conn, series_cache, db, tx, call, files, run_pc, close_status,
                   now, outcome, reader, nreq, logged, stable, rundir, creating, lock,
                   threads, tree, response, sent, util, block>>

\* self._storage.log_configs / log_metric_points: the thread takes the
\* storage lock in _transaction, or finds the store closed and raises
Run_thread_transaction(t) ==
    /\ callers[t].pc = "storage_wait"
    /\ lock \in {0, t}
    /\ IF StorageIsClosed
       THEN /\ callers' = [callers EXCEPT ![t].pc = "out", ![t].res = "Storage is closed"]
            /\ run_lock' = RunLockReleased(t)
            /\ UNCHANGED lock
       ELSE /\ callers' = [callers EXCEPT ![t].pc = "in"]
            /\ lock' = t
            /\ UNCHANGED run_lock
    /\ UNCHANGED <<conn, series_cache, db, tx, call, files, closed, run_pc, close_status,
                   now, outcome, reader, nreq, logged, stable, rundir, creating,
                   threads, tree, response, sent, util, block>>

\* the statement of the call's transaction
Run_thread_statement(t) ==
    /\ callers[t].pc = "in"
    /\ callers[t].items = <<>>
    /\ \E st \in RunStatementsOf(callers[t].op) :
          LET done == Execute(tx, series_cache, st)
          IN  /\ series_cache' = done.cache
              /\ tx' = done.db
              /\ callers' = [callers EXCEPT ![t].items = <<st>>]
    /\ UNCHANGED <<conn, db, call, files, closed, run_pc, close_status, now, outcome,
                   reader, nreq, logged, stable, rundir, creating, lock, threads,
                   tree, response, sent, util, block, run_lock>>

\* the transaction commits, both locks are released, the call returns
Run_thread_commit(t) ==
    /\ callers[t].pc = "in"
    /\ db' = tx
    /\ stable' = tx
    /\ files' = Written(tx)
    /\ lock' = StorageLockReleased(t)
    /\ run_lock' = RunLockReleased(t)
    /\ callers' = [callers EXCEPT ![t].pc = "out", ![t].res = "ok"]
    /\ UNCHANGED <<conn, series_cache, tx, call, closed, run_pc, close_status, now,
                   outcome, reader, nreq, logged, rundir, creating, threads,
                   tree, response, sent, util, block>>

\* close, outside the Run lock: set_meta("status", status) and
\* set_meta("closed_at", ...), each one transaction under the storage lock
Run_thread_close_set_meta(t) ==
    /\ callers[t].pc \in {"set_status", "set_closed_at"}
    /\ lock \in {0, t}
    /\ IF StorageIsClosed
       THEN /\ callers' = [callers EXCEPT ![t].pc = "out", ![t].res = "Storage is closed"]
            /\ UNCHANGED <<db, tx, stable, files>>
       ELSE LET d == IF callers[t].pc = "set_status"
                     THEN ReplaceMeta(tx, "status", callers[t].status)
                     ELSE ReplaceMeta(tx, "closed_at", isoformat(now))
            IN  /\ db' = d
                /\ tx' = d
                /\ stable' = d
                /\ files' = Written(d)
                /\ callers' = [callers EXCEPT ![t].pc =
                                  IF callers[t].pc = "set_status" THEN "set_closed_at"
                                  ELSE "checkpoint"]
    /\ UNCHANGED <<conn, series_cache, call, closed, run_pc, close_status, now, outcome,
                   reader, nreq, logged, rundir, creating, lock, threads,
                   tree, response, sent, util, block, run_lock>>

\* close: self._storage.checkpoint_wal()
Run_thread_close_checkpoint(t) ==
    /\ callers[t].pc = "checkpoint"
    /\ lock \in {0, t}
    /\ IF StorageIsClosed
       THEN /\ callers' = [callers EXCEPT ![t].pc = "out", ![t].res = "Storage is closed"]
            /\ UNCHANGED files
       ELSE /\ files' = Checkpoint
            /\ callers' = [callers EXCEPT ![t].pc = "close"]
    /\ UNCHANGED <<conn, series_cache, db, tx, call, closed, run_pc, close_status, now,
                   outcome, reader, nreq, logged, stable, rundir, creating, lock, threads,
                   tree, response, sent, util, block, run_lock>>

\* close: self._storage.close(), and close returns
Run_thread_close_close(t) ==
    /\ callers[t].pc = "close"
    /\ lock \in {0, t}
    /\ conn' = "closed"
    /\ files' = IF StorageIsClosed THEN files ELSE ConnClose
    /\ callers' = [callers EXCEPT ![t].pc = "out", ![t].res = "ok"]
    /\ UNCHANGED <<series_cache, db, tx, call, closed, run_pc, close_status, now,
                   outcome, reader, nreq, logged, stable, rundir, creating, lock, threads,
                   tree, response, sent, util, block, run_lock>>

\* a step of thread t inside a call
Run_thread_step(t) ==
    \/ Run_thread_enter(t)
    \/ Run_thread_transaction(t)
    \/ Run_thread_statement(t)
    \/ Run_thread_commit(t)
    \/ Run_thread_close_set_meta(t)
    \/ Run_thread_close_checkpoint(t)
    \/ Run_thread_close_close(t)

\* ------------------------------------------------------------------ Run.__init__
\* a _resolve_db_path that appends -2, -3, ... for explicit names too
resolve_db_path_always_auto(run_name, auto_name, names) ==
    IF run_name \notin names
    THEN [res |-> "ok", name |-> run_name]
    ELSE [res |-> "ok", name |-> <<run_name[1], run_name[2] + 1>>]

\* _resolve_db_path(run_name, project, auto_name): the name whose file does
\* not exist, or the error raised; names is the set of existing run files
\* a retry loop that falls through with its last candidate
resolve_db_path_last_candidate(run_name, auto_name, names) ==
    IF run_name \notin names
    THEN [res |-> "ok", name |-> run_name]
    ELSE IF ~auto_name
    THEN [res |-> "Database already exists", name |-> NoName]
    ELSE LET free == {i \in 2..(RetryEnd - 1) : <<run_name[1], i>> \notin names}
         IN  [res |-> "ok",
              name |-> <<run_name[1],
                         IF free = {} THEN RetryEnd - 1
                         ELSE CHOOSE i \in free : \A j \in free : i <= j>>]

resolve_db_path(run_name, auto_name, names) ==
    IF run_name \notin names
    THEN [res |-> "ok", name |-> run_name]
    ELSE IF ~auto_name
    THEN [res |-> "Database already exists", name |-> NoName]
    ELSE LET free == {i \in 2..(RetryEnd - 1) : <<run_name[1], i>> \notin names}
         IN  IF free = {}
             THEN [res |-> "Could not find a unique run name", name |-> NoName]
             ELSE [res |-> "ok",
                   name |-> <<run_name[1], CHOOSE i \in free : \A j \in free : i <= j>>]

\* a construction not yet started
NotStarted == [pc |-> "new", auto |-> FALSE, arg |-> NoName, name |-> NoName, res |-> "none"]

\* a run file as sqlite3.connect creates it: no table has a row
NewFile == [owners |-> {}, run_name |-> NoName, status |-> "none", by |-> 0]

\* Run.__init__ up to the return of _resolve_db_path: run_name or
\* generate_run_name(), then the existence checks
\* the suffixes of the files of "bold-falcon" that earlier runs left in the
\* runs directory: the base name alone, with -2, with -3, with both,
\* all of -2 .. -999, all but -500, all but -999
EarlierSuffixes ==
    {{1}, {1, 2}, {1, 3}, {1, 2, 3}, 1..(RetryEnd - 1),
     1..(RetryEnd - 1) \ {500}, 1..(RetryEnd - 2)}

\* the runs directory as earlier, finished runs left it
EarlierRuns ==
    /\ rundir = <<>>
    /\ \A c \in 1..MaxRuns : creating[c].pc = "new"
    /\ \E suffixes \in EarlierSuffixes :
          rundir' = [n \in {<<"bold-falcon", i>> : i \in suffixes} |->
                        [NewFile EXCEPT !.run_name = n, !.status = "finished"]]
    /\ UNCHANGED <<conn, series_cache, db, tx, call, files, closed, run_pc, close_status,
                   now, outcome, reader, nreq, logged, stable, creating, lock, threads,
                   tree, response, sent, util, block, run_lock, callers>>

Run_init_resolve(c) ==
    /\ creating[c].pc = "new"
    /\ \E auto \in BOOLEAN :
       \E run_name \in IF auto THEN {<<g, 1>> : g \in GeneratedNames} ELSE ExplicitNames :
          LET got == resolve_db_path(run_name, auto, DOMAIN rundir)
          IN  creating' = [creating EXCEPT ![c] =
                  [pc |-> IF got.res = "ok" THEN "resolved" ELSE "raised",
                   auto |-> auto, arg |-> run_name, name |-> got.name, res |-> got.res]]
    /\ UNCHANGED <<conn, series_cache, db, tx, call, files, closed, run_pc, close_status,
                   now, outcome, reader, nreq, logged, stable, rundir, lock, threads,
                   tree, response, sent, util, block, run_lock, callers>>

\* LocalStorage(db_path): sqlite3.connect opens the file, creating it when it
\* does not exist, and CREATE TABLE IF NOT EXISTS keeps what it holds
Run_init_storage(c) ==
    /\ creating[c].pc = "resolved"
    /\ LET name == creating[c].name
           file == IF name \in DOMAIN rundir THEN rundir[name] ELSE NewFile
       IN  rundir' = (name :> [file EXCEPT !.owners = @ \cup {c}]) @@ rundir
    /\ creating' = [creating EXCEPT ![c].pc = "open"]
    /\ UNCHANGED <<conn, series_cache, db, tx, call, files, closed, run_pc, close_status,
                   now, outcome, reader, nreq, logged, stable, lock, threads,
                   tree, response, sent, util, block, run_lock, callers>>

\* set_meta("run_name", ...), ("project", ...), ("created_at", ...),
\* ("status", "running"), and Run.__init__ returns
Run_init_set_meta(c) ==
    /\ creating[c].pc = "open"
    /\ rundir' = [rundir EXCEPT ![creating[c].name] =
                     [@ EXCEPT !.run_name = creating[c].name, !.status = "running",
                               !.by = c]]
    /\ creating' = [creating EXCEPT ![c].pc = "running"]
    /\ UNCHANGED <<conn, series_cache, db, tx, call, files, closed, run_pc, close_status,
                   now, outcome, reader, nreq, logged, stable, lock, threads,
                   tree, response, sent, util, block, run_lock, callers>>

\* ------------------------------------------------------------------ server.py
\* utils.deserialize_value on the rows the model stores
deserialize_value(type_tag, raw_value) ==
    IF type_tag = "null" \/ raw_value = NULL
    THEN <<"None", "">>
    ELSE <<type_tag, raw_value>>

\* _get_configs
get_configs_json(d) ==
    {[path |-> r.path, value |-> deserialize_value(r.type_tag, r.value)] :
        r \in SelectConfigs(d)}

\* _ts_to_iso
ts_to_iso(ts) == isoformat(ts)

RECURSIVE MetricsJson(_)
MetricsJson(rows) ==
    IF rows = <<>>
    THEN <<>>
    ELSE <<[path |-> Head(rows).path, step |-> Head(rows).step, value |-> Head(rows).y,
            is_preview |-> FALSE, preview_completion |-> NULL,
            logged_at |-> ts_to_iso(Head(rows).ts)]>> \o MetricsJson(Tail(rows))

\* _get_metrics(db_path, metric_path) on the database the request reads
get_metrics(d, metric_path) == MetricsJson(SelectPoints(d, metric_path))

\* meta.get(key, default) on the dict _read_meta builds
meta_get(d, key, default) ==
    IF \E r \in d.run_meta : r.key = key THEN SelectMeta(d, key) ELSE default

\* _scan_runs: the entry of the catalog for the run file
scan_runs(d) ==
    <<[project |-> "default",
       run_id |-> meta_get(d, "run_name", "stem"),
       experiment_name |-> meta_get(d, "experiment_name", NULL),
       created_at |-> meta_get(d, "created_at", NULL),
       closed_at |-> meta_get(d, "closed_at", NULL),
       status |-> meta_get(d, "status", "unknown")]>>

\* the body of the response of a route, read from database d
Query(d, route, path) ==
    [runs |-> IF route = "runs" THEN scan_runs(d) ELSE <<>>,
     configs |-> IF route = "configs" THEN get_configs_json(d) ELSE {},
     metrics |-> IF route = "metrics" THEN get_metrics(d, path) ELSE <<>>,
     paths |-> IF route = "metric-paths" THEN SelectPaths(d) ELSE <<>>]

NoRequest == [pc |-> "idle", route |-> "none", path |-> NoPath, behind |-> 0,
              body |-> Query(EmptyDb, "none", NoPath),
              base |-> Query(EmptyDb, "none", NoPath),
              code |-> 0, error |-> "", handles |-> 0]

\* _send_json (200) and _send_error (code, {"error": message}): the response
\* is sent and the handler returns
Respond(route, code, error) ==
    [NoRequest EXCEPT !.route = route, !.code = code, !.error = error,
                      !.handles = reader.handles]

\* conn.close() after the query only, without try/finally: a query that
\* raises leaves the handle open
CloseOnSuccess(handles, raised) == IF raised THEN handles ELSE handles - 1

\* try: <query> finally: conn.close(): the handle is closed when the query
\* returns and when it raises
CloseOnExit(handles, raised) == handles - 1

\* what do_GET answers when reading the run file raises: the scanner skips
\* the file (except Exception: continue), the other routes answer 500
Raised(route, message) ==
    IF route = "runs" THEN Respond(route, 200, "") ELSE Respond(route, 500, message)

\* sqlite3.connect("file:<path>?mode=ro") for a run name without "#" or "?":
\* the files are left as they are
OpenReadonly(f) == f

\* do_GET: the route is matched and the run file is looked up, by
\* _resolve_run_db (db_path.exists()) or by the glob of _scan_runs; a file
\* that is not there is answered 404, or with an empty catalog
RequestOpen(routes) ==
    /\ reader.pc = "idle"
    /\ nreq < MaxRequests
    /\ nreq' = nreq + 1
    /\ \E route \in routes, path \in Paths \cup {NoPath} :
          /\ route = "metrics" \/ path = NoPath
          /\ reader' = IF files.sqlite
                        THEN [NoRequest EXCEPT !.pc = "resolved", !.route = route,
                                               !.path = path,
                                               !.handles = reader.handles]
                        ELSE IF route = "runs"
                             THEN Respond(route, 200, "")
                             ELSE Respond(route, 404, "Run not found")
    /\ UNCHANGED <<conn, series_cache, db, tx, call, files, closed, run_pc,
                   close_status, now, outcome, logged, stable,
                   rundir, creating, lock, threads,
                   tree, response, sent, util, block, run_lock, callers>>

\* _open_readonly: connect(mode=ro) and PRAGMA busy_timeout; it raises
\* OperationalError when the file is not there
RequestConnect ==
    /\ reader.pc = "resolved"
    /\ files' = OpenReadonly(files)
    /\ reader' = IF files'.sqlite
                  THEN [reader EXCEPT !.pc = "open", !.handles = @ + 1]
                  ELSE Raised(reader.route, "unable to open database file")
    /\ UNCHANGED <<conn, series_cache, db, tx, call, closed, run_pc,
                   close_status, now, outcome, nreq, logged, stable,
                   rundir, creating, lock, threads,
                   tree, response, sent, util, block, run_lock, callers>>

\* a read that is not isolated from the writer's open transaction
DirtySnapshot == tx

\* what a read transaction on the request's own connection sees: the
\* database as committed when the transaction starts
ReadSnapshot == db

\* conn.execute(SELECT ...): the read transaction starts, and its snapshot
\* fixes the rows the request will return; a connection to a WAL database
\* whose -wal and -shm files are gone creates them; on a file unlinked since
\* the connect the statement raises OperationalError.  base and behind are
\* history: the same query on the database as the last returned call left
\* it, and the number of statements the writer had not committed.
RequestSelect ==
    /\ reader.pc = "open"
    /\ IF files.sqlite
       THEN /\ reader' = [reader EXCEPT !.pc = "reading",
                              !.body = Query(ReadSnapshot, reader.route, reader.path),
                              !.base = Query(stable, reader.route, reader.path),
                              !.behind = Len(call.items)]
            /\ files' = IF files.wal = "absent"
                        THEN [files EXCEPT !.wal = "empty", !.shm = TRUE]
                        ELSE files
       ELSE /\ reader' = [Raised(reader.route, "disk I/O error") EXCEPT
                              !.handles = CloseOnExit(reader.handles, TRUE)]
            /\ UNCHANGED files
    /\ UNCHANGED <<conn, series_cache, db, tx, call, closed, run_pc, close_status,
                   now, outcome, nreq, logged, stable,
                   rundir, creating, lock, threads,
                   tree, response, sent, util, block, run_lock, callers>>

\* .fetchall(): the rows are read and the read transaction ends
RequestFetch ==
    /\ reader.pc = "reading"
    /\ reader' = [reader EXCEPT !.pc = "fetched"]
    /\ UNCHANGED <<conn, series_cache, db, tx, call, files, closed, run_pc,
                   close_status, now, outcome, nreq, logged, stable,
                   rundir, creating, lock, threads,
                   tree, response, sent, util, block, run_lock, callers>>

\* finally: conn.close(), and the response is sent; a read-only connection
\* leaves the -wal and -shm files in place
RequestClose ==
    /\ reader.pc = "fetched"
    /\ reader' = [Respond(reader.route, 200, "") EXCEPT
                     !.handles = CloseOnExit(reader.handles, FALSE)]
    /\ UNCHANGED <<conn, series_cache, db, tx, call, files, closed, run_pc,
                   close_status, now, outcome, nreq, logged, stable,
                   rundir, creating, lock, threads,
                   tree, response, sent, util, block, run_lock, callers>>

\* ------------------------------------------------------------------ server.py, catalog
\* the candidate run files <root>/<project>/runs/<name>, a name written as
\* its pieces, in the order _scan_runs visits them: sorted(iterdir()), then
\* sorted(glob("*.sqlite")).  The runs are named "c#", "d", "d.sqlite#", "e", "f".
Files ==
    << <<"alpha", <<"c", "#", ".sqlite">>>>,
       <<"alpha", <<"d", ".sqlite">>>>,
       <<"alpha", <<"d", ".sqlite", "#", ".sqlite">>>>,
       <<"beta", <<"e", ".sqlite">>>>,
       <<"beta", <<"f", ".sqlite">>>> >>

\* created_at values as strings of equal length, a string as its characters
TimeStamps == {<<0, 9>>, <<1, 0>>}

\* the request methods a client sends
Methods == {"GET", "OPTIONS", "POST", "HEAD"}

\* a metadata value that is not stored (meta.get(key) is None)
Missing == <<>>

\* db_path.stem
Stem(f) == SubSeq(f[2], 1, Len(f[2]) - 1)

\* a run file as Run.__init__ and Run.close leave it (created_at set), or as
\* LocalStorage alone leaves it (no metadata: created_at NULL)
RunContent(f, t) ==
    [kind |-> "run",
     run_name |-> IF t = Missing THEN Missing ELSE Stem(f),
     created_at |-> t,
     status |-> IF t = Missing THEN NULL ELSE "finished"]

\* a file that is not a database
Corrupt ==
    [kind |-> "corrupt", run_name |-> Missing, created_at |-> Missing, status |-> NULL]

\* the zero-length file sqlite3.connect creates
EmptyFile ==
    [kind |-> "empty", run_name |-> Missing, created_at |-> Missing, status |-> NULL]

\* the path SQLite takes from the URI "file:<db_path>?mode=ro": the text
\* before the first "?" or "#"
RECURSIVE UriPath(_)
UriPath(name) ==
    IF name = <<>> \/ Head(name) \in {"#", "?"}
    THEN <<>>
    ELSE <<Head(name)>> \o UriPath(Tail(name))

\* the mode SQLite takes from the URI: the "mode=ro" parameter is read only
\* when the "?" that introduces it is the first "?" and no "#" comes before
UriMode(name) ==
    IF \E i \in 1..Len(name) : name[i] \in {"#", "?"} THEN "rwc" ELSE "ro"

\* _open_readonly(db_path) on the tree t: the file opened, the tree after the
\* call, and the error raised ("" when none)
open_readonly(t, f) ==
    LET target == <<f[1], UriPath(f[2])>>
    IN  IF target \in DOMAIN t
        THEN [file |-> target, tree |-> t, raised |-> ""]
        ELSE IF UriMode(f[2]) = "rwc"
        THEN [file |-> target, tree |-> (target :> EmptyFile) @@ t, raised |-> ""]
        ELSE [file |-> target, tree |-> t, raised |-> "unable to open database file"]

\* conn.execute(SELECT ...) on a file: the error it raises, "" when none
ReadError(c) ==
    IF c.kind = "run" THEN ""
    ELSE IF c.kind = "empty" THEN "no such table"
    ELSE "file is not a database"

\* the files glob("*.sqlite") finds, in sorted order
Glob(t) == SelectSeq(Files, LAMBDA f : f \in DOMAIN t)

\* the entry _scan_runs appends for the file f, read from content c
Summary(f, c) ==
    [project |-> f[1],
     run_id |-> IF c.run_name = Missing THEN Stem(f) ELSE c.run_name,
     created_at |-> c.created_at,
     status |-> IF c.status = NULL THEN "unknown" ELSE c.status]

\* the loop of _scan_runs over the files found: open, _read_meta, close,
\* append; a file that raises is skipped (except Exception: continue)
RECURSIVE ScanFiles(_, _, _)
ScanFiles(found, t, runs) ==
    IF found = <<>>
    THEN [tree |-> t, runs |-> runs]
    ELSE LET o == open_readonly(t, Head(found))
         IN  IF o.raised # "" \/ ReadError(o.tree[o.file]) # ""
             THEN ScanFiles(Tail(found), o.tree, runs)
             ELSE ScanFiles(Tail(found), o.tree,
                            Append(runs, Summary(Head(found), o.tree[o.file])))

\* r.get("created_at") or ""
SortKey(r) == IF r.created_at = Missing THEN <<>> ELSE r.created_at

\* a < b on strings
RECURSIVE StrLess(_, _)
StrLess(a, b) ==
    IF b = <<>> THEN FALSE
    ELSE IF a = <<>> THEN TRUE
    ELSE IF Head(a) # Head(b) THEN Head(a) < Head(b)
    ELSE StrLess(Tail(a), Tail(b))

\* a catalog left in the order of the scan
SortRunsNot(runs) == runs

\* one run put into a list sorted by key, largest first, after the runs of
\* the same key
RECURSIVE InsertRun(_, _)
InsertRun(sorted, r) ==
    IF sorted = <<>> THEN <<r>>
    ELSE IF StrLess(SortKey(Head(sorted)), SortKey(r))
    THEN <<r>> \o sorted
    ELSE <<Head(sorted)>> \o InsertRun(Tail(sorted), r)

RECURSIVE SortFrom(_, _)
SortFrom(runs, sorted) ==
    IF runs = <<>> THEN sorted ELSE SortFrom(Tail(runs), InsertRun(sorted, Head(runs)))

\* runs.sort(key=lambda r: r.get("created_at") or "", reverse=True): stable
SortRuns(runs) == SortFrom(runs, <<>>)

\* _scan_runs(projects_dir): the tree after the scan and the catalog
scan_runs_tree(t) ==
    LET scanned == ScanFiles(Glob(t), t, <<>>)
    IN  [tree |-> scanned.tree, runs |-> SortRuns(scanned.runs)]

NoResponse ==
    [method |-> "none", route |-> "none", file |-> <<>>, code |-> 0, cors |-> FALSE,
     error |-> "", runs |-> <<>>]

\* _send_json: 200, the CORS headers, the body
send_json(route, file, runs) ==
    [method |-> "GET", route |-> route, file |-> file, code |-> 200, cors |-> TRUE,
     error |-> "", runs |-> runs]

\* _send_error: the code, the CORS headers, {"error": message}
send_error(route, file, code, message) ==
    [method |-> "GET", route |-> route, file |-> file, code |-> code, cors |-> TRUE,
     error |-> message, runs |-> <<>>]

\* a do_GET whose exception leaves the handler: no response is written
do_GET_no_except(route, file, message) ==
    [NoResponse EXCEPT !.method = "GET", !.route = route, !.file = file]

\* do_GET: except Exception as e: self._send_error(500, str(e))
do_GET_except(route, file, message) == send_error(route, file, 500, message)

\* a response is written to the client
Send(r) ==
    /\ Len(sent) < MaxServerRequests
    /\ response' = r
    /\ sent' = Append(sent, r.code)

\* a producer creates a run file: Run(...) and Run.close(), or LocalStorage
\* alone (no created_at)
CatalogRun ==
    /\ Cardinality({f \in DOMAIN tree : tree[f].kind # "empty"}) < MaxFiles
    /\ \E i \in 1..Len(Files), t \in TimeStamps \cup {Missing} :
          /\ Files[i] \notin DOMAIN tree
          /\ tree' = (Files[i] :> RunContent(Files[i], t)) @@ tree
    /\ UNCHANGED <<conn, series_cache, db, tx, call, files, closed, run_pc,
                   close_status, now, outcome, reader, nreq, logged, stable,
                   rundir, creating, lock, threads, response, sent, util, block, run_lock, callers>>

\* a file that is not a database appears under runs/
CatalogCorrupt ==
    /\ Cardinality({f \in DOMAIN tree : tree[f].kind # "empty"}) < MaxFiles
    /\ \E i \in 1..Len(Files) :
          /\ Files[i] \notin DOMAIN tree
          /\ tree' = (Files[i] :> Corrupt) @@ tree
    /\ UNCHANGED <<conn, series_cache, db, tx, call, files, closed, run_pc,
                   close_status, now, outcome, reader, nreq, logged, stable,
                   rundir, creating, lock, threads, response, sent, util, block, run_lock, callers>>

\* OPTIONS <any path>: do_OPTIONS
ServeOptions ==
    /\ Send([NoResponse EXCEPT !.method = "OPTIONS", !.code = 204, !.cors = TRUE])
    /\ UNCHANGED <<conn, series_cache, db, tx, call, files, closed, run_pc,
                   close_status, now, outcome, reader, nreq, logged, stable,
                   rundir, creating, lock, threads, tree, util, block, run_lock, callers>>

\* a method _RequestHandler has no do_<METHOD> for: BaseHTTPRequestHandler
\* answers 501 itself
ServeUnsupported ==
    /\ \E m \in Methods \ {"GET", "OPTIONS"} :
          Send([NoResponse EXCEPT !.method = m, !.code = 501,
                                  !.error = "Unsupported method"])
    /\ UNCHANGED <<conn, series_cache, db, tx, call, files, closed, run_pc,
                   close_status, now, outcome, reader, nreq, logged, stable,
                   rundir, creating, lock, threads, tree, util, block, run_lock, callers>>

\* GET of a path that matches no route
ServeNotFound ==
    /\ Send(send_error("none", <<>>, 404, "Not found"))
    /\ UNCHANGED <<conn, series_cache, db, tx, call, files, closed, run_pc,
                   close_status, now, outcome, reader, nreq, logged, stable,
                   rundir, creating, lock, threads, tree, util, block, run_lock, callers>>

\* GET /api/runs
ServeRuns ==
    /\ LET scanned == scan_runs_tree(tree)
       IN  /\ Send(send_json("runs", <<>>, scanned.runs))
           /\ tree' = scanned.tree
    /\ UNCHANGED <<conn, series_cache, db, tx, call, files, closed, run_pc,
                   close_status, now, outcome, reader, nreq, logged, stable,
                   rundir, creating, lock, threads, util, block, run_lock, callers>>

\* GET /api/runs/<project>/<run_name>/configs for a run whose name has no
\* "#" or "?": _resolve_run_db, then _get_configs
ServeConfigs ==
    /\ \E i \in 1..Len(Files) :
          LET f == Files[i]
              o == open_readonly(tree, f)
          IN  /\ UriMode(f[2]) = "ro"
              /\ IF f \notin DOMAIN tree
                 THEN Send(send_error("configs", f, 404, "Run not found"))
                 ELSE IF o.raised # ""
                 THEN Send(do_GET_except("configs", f, o.raised))
                 ELSE IF ReadError(o.tree[o.file]) # ""
                 THEN Send(do_GET_except("configs", f, ReadError(o.tree[o.file])))
                 ELSE Send(send_json("configs", f, <<>>))
              /\ tree' = IF f \in DOMAIN tree THEN o.tree ELSE tree
    /\ UNCHANGED <<conn, series_cache, db, tx, call, files, closed, run_pc,
                   close_status, now, outcome, reader, nreq, logged, stable,
                   rundir, creating, lock, threads, util, block, run_lock, callers>>

\* ------------------------------------------------------------------ specification
\* Run.__init__: LocalStorage(db_path) on a fresh path, then the set_meta calls
Init ==
    /\ conn = "open"
    /\ series_cache = <<>>
    /\ db = [EmptyDb EXCEPT !.run_meta =
                {[key |-> "run_name", value |-> "bold-falcon"],
                 [key |-> "project", value |-> "default"],
                 [key |-> "created_at", value |-> isoformat(0)],
                 [key |-> "status", value |-> "running"]}]
    /\ tx = db
    /\ stable = db
    /\ call = NoCall
    /\ files = [sqlite |-> TRUE, wal |-> "frames", shm |-> TRUE]
    /\ closed = FALSE
    /\ run_pc = "idle"
    /\ close_status = "none"
    /\ now = 0
    /\ outcome = [op |-> "Run.__init__", res |-> "ok", n |-> 0, at |-> 0]
    /\ reader = NoRequest
    /\ nreq = 0
    /\ logged = {}
    /\ rundir = <<>>
    /\ creating = [c \in 1..MaxRuns |-> NotStarted]
    /\ lock = 0
    /\ threads = [t \in Threads |-> Outside]
    /\ tree = <<>>
    /\ response = NoResponse
    /\ sent = <<>>
    /\ util = NoUtil
    /\ block = NoBlock
    /\ run_lock = 0
    /\ callers = [t \in Threads |-> NoCaller]

\* one producer thread calling the LocalStorage and the Run methods, and the
\* server answering requests on the same run file
Next ==
    \/ \E key \in MetaKeyInputs, value \in MetaValueInputs : set_meta(key, value)
    \/ \E op \in {"get_meta", "get_configs", "get_metric_points", "get_metric_paths"} : Get(op)
    \/ log_configs_begin
    \/ log_configs_step({"lr"}, FewConfigInputs)
    \/ log_metric_points_begin
    \/ log_metric_points_step(FewPointInputs)
    \/ transaction_commit
    \/ checkpoint_wal
    \/ close
    \/ Run_log_configs_begin
    \/ Run_log_configs_step({"lr"}, {"f0.001"})
    \/ Run_log_metrics_begin
    \/ Run_log_metrics_step({"loss"}, {"0.9"})
    \/ Run_close_begin
    \/ Run_close_set_meta
    \/ Run_close_checkpoint
    \/ Run_close_close
    \/ RequestOpen(Routes)
    \/ RequestConnect
    \/ RequestSelect
    \/ RequestFetch
    \/ RequestClose

Spec == Init /\ [][Next]_vars

\* the producer alone: every LocalStorage and Run method, no server
NextProducer ==
    \/ \E key \in MetaKeyInputs, value \in MetaValueInputs : set_meta(key, value)
    \/ \E op \in {"get_meta", "get_configs", "get_metric_points", "get_metric_paths"} : Get(op)
    \/ log_configs_begin
    \/ log_configs_step({"lr"}, FewConfigInputs)
    \/ log_metric_points_begin
    \/ log_metric_points_step(FewPointInputs)
    \/ transaction_commit
    \/ checkpoint_wal
    \/ close
    \/ Run_log_configs_begin
    \/ Run_log_configs_step({"lr"}, {"f0.001"})
    \/ Run_log_metrics_begin
    \/ Run_log_metrics_step({"loss"}, {"0.9"})
    \/ Run_close_begin
    \/ Run_close_set_meta
    \/ Run_close_checkpoint
    \/ Run_close_close

SpecProducer == Init /\ [][NextProducer]_vars

\* a Run that logs metrics and is closed while the server answers requests
NextClose ==
    \/ Run_log_metrics_begin
    \/ Run_log_metrics_step({"loss"}, {"0.9"})
    \/ transaction_commit
    \/ Run_close_begin
    \/ Run_close_set_meta
    \/ Run_close_checkpoint
    \/ Run_close_close
    \/ RequestOpen(Routes)
    \/ RequestConnect
    \/ RequestSelect
    \/ RequestFetch
    \/ RequestClose

SpecClose == Init /\ [][NextClose]_vars

\* several Run(...) constructions in one project directory, interleaved as
\* the constructions of several producer processes are
NextCreate ==
    \/ \E c \in 1..MaxRuns : Run_init_resolve(c)
    \/ \E c \in 1..MaxRuns : Run_init_storage(c)
    \/ \E c \in 1..MaxRuns : Run_init_set_meta(c)

SpecCreate == Init /\ [][NextCreate]_vars

\* several threads of one producer calling the mutating methods of one store
NextThreads ==
    \/ \E t \in Threads : Thread_call(t)
    \/ \E t \in Threads : Thread_enter(t)
    \/ \E t \in Threads : Thread_statement(t)
    \/ \E t \in Threads : Thread_commit(t)

SpecThreads == Init /\ [][NextThreads]_vars

\* the store under at most MaxPointCalls log_metric_points calls alone, with
\* every input
NextPoints ==
    \/ now < MaxPointCalls /\ log_metric_points_begin
    \/ log_metric_points_step(PointInputs)
    \/ transaction_commit

SpecPoints == Init /\ [][NextPoints]_vars

\* the store under log_configs calls alone, with every input
NextConfigs ==
    \/ log_configs_begin
    \/ log_configs_step(ConfigPaths, ConfigInputs)
    \/ transaction_commit

SpecConfigs == Init /\ [][NextConfigs]_vars

\* a Run that logs metrics while the server answers requests
NextServed ==
    \/ Run_log_metrics_begin
    \/ Run_log_metrics_step({"loss", "/loss/"}, {"0.9", "0.7", "nan"})
    \/ transaction_commit
    \/ RequestOpen({"metrics"})
    \/ RequestConnect
    \/ RequestSelect
    \/ RequestFetch
    \/ RequestClose

SpecServed == Init /\ [][NextServed]_vars

\* a store that is written, checkpointed, closed and deleted while the
\* server answers requests on its file
NextLifetime ==
    \/ \E key \in MetaKeyInputs, value \in MetaValueInputs : set_meta(key, value)
    \/ log_metric_points_begin
    \/ log_metric_points_step(FewPointInputs)
    \/ transaction_commit
    \/ checkpoint_wal
    \/ close
    \/ delete_db_file
    \/ RequestOpen(Routes)
    \/ RequestConnect
    \/ RequestSelect
    \/ RequestFetch
    \/ RequestClose

SpecLifetime == Init /\ [][NextLifetime]_vars

\* the server over a projects directory that producers fill
NextCatalog ==
    \/ CatalogRun
    \/ CatalogCorrupt
    \/ ServeOptions
    \/ ServeUnsupported
    \/ ServeNotFound
    \/ ServeRuns
    \/ ServeConfigs

SpecCatalog == Init /\ [][NextCatalog]_vars

\* values serialized and deserialized
NextValues ==
    \/ SerializeValue
    \/ DeserializeValue

SpecValues == Init /\ [][NextValues]_vars

\* dicts flattened
NextFlatten == FlattenDict

SpecFlatten == Init /\ [][NextFlatten]_vars

\* a Run used as a context manager: the block logs metrics and may close the
\* run itself
NextBlock ==
    \/ Run_enter
    \/ block.pc = "in" /\ Run_log_metrics_begin
    \/ block.pc = "in" /\ Run_log_metrics_step({"loss"}, {"0.9"})
    \/ block.pc = "in" /\ transaction_commit
    \/ block.pc = "in" /\ Run_close_begin
    \/ Run_close_set_meta
    \/ Run_close_checkpoint
    \/ Run_close_close
    \/ Run_exit
    \/ Run_exit_return

SpecBlock == Init /\ [][NextBlock]_vars

\* a Run that logs configs and metrics and is closed, and its file opened again
NextReopen ==
    \/ Run_log_configs_begin
    \/ Run_log_configs_step({"lr", "model"}, {"f0.001"})
    \/ Run_log_metrics_begin
    \/ Run_log_metrics_step({"loss", "/"}, {"0.9"})
    \/ transaction_commit
    \/ Run_close_begin
    \/ Run_close_set_meta
    \/ Run_close_checkpoint
    \/ Run_close_close
    \/ LocalStorage_init

SpecReopen == Init /\ [][NextReopen]_vars

\* stores opened, written, closed and deleted on one path
NextOpen ==
    \/ \E key \in MetaKeyInputs, value \in MetaValueInputs : set_meta(key, value)
    \/ log_configs_begin
    \/ log_configs_step({"lr"}, FewConfigInputs)
    \/ log_metric_points_begin
    \/ log_metric_points_step(FewPointInputs)
    \/ transaction_commit
    \/ close
    \/ delete_db_file
    \/ LocalStorage_init

SpecOpen == Init /\ [][NextOpen]_vars

\* Runs created in a directory that holds the files of earlier runs
NextResolve ==
    \/ EarlierRuns
    \/ \E c \in 1..2 : Run_init_resolve(c)
    \/ \E c \in 1..2 : Run_init_storage(c)
    \/ \E c \in 1..2 : Run_init_set_meta(c)

SpecResolve == Init /\ [][NextResolve]_vars

\* threads calling log_configs, log_metrics and close of one Run
NextRunThreads ==
    \/ \E t \in Threads : Run_thread_call(t)
    \/ \E t \in Threads : Run_thread_enter(t)
    \/ \E t \in Threads : Run_thread_transaction(t)
    \/ \E t \in Threads : Run_thread_statement(t)
    \/ \E t \in Threads : Run_thread_commit(t)
    \/ \E t \in Threads : Run_thread_close_set_meta(t)
    \/ \E t \in Threads : Run_thread_close_checkpoint(t)
    \/ \E t \in Threads : Run_thread_close_close(t)

SpecRunThreads == Init /\ [][NextRunThreads]_vars

\* the same with every thread that can take a step taking one in the end
SpecRunThreadsFair ==
    /\ Init
    /\ [][NextRunThreads]_vars
    /\ \A t \in Threads : WF_vars(Run_thread_step(t))

\* the steps that finish a Run.close that has begun
RunCloseStep == Run_close_set_meta \/ Run_close_checkpoint \/ Run_close_close

\* the steps that finish a request that has found its file
RequestStep == RequestConnect \/ RequestSelect \/ RequestFetch \/ RequestClose

\* a Run that logs and is closed while the server answers requests
NextFair ==
    \/ now < MaxFairCalls /\ Run_log_configs_begin
    \/ Run_log_configs_step({"lr"}, {"f0.001"})
    \/ now < MaxFairCalls /\ Run_log_metrics_begin
    \/ Run_log_metrics_step({"loss"}, {"0.9"})
    \/ transaction_commit
    \/ now < MaxFairCalls /\ Run_close_begin
    \/ RunCloseStep
    \/ RequestOpen({"runs", "configs"})
    \/ RequestStep

\* the producer thread and the handler thread of the server are scheduled
\* independently: a call whose loop over its batch is over commits, a
\* Run.close that has begun and a request that has begun go on
SpecFair ==
    /\ Init
    /\ [][NextFair]_vars
    /\ WF_vars(transaction_commit)
    /\ WF_vars(RunCloseStep)
    /\ WF_vars(RequestStep)

\* ------------------------------------------------------------------ metric points
\* the rows of a result at one (path, step)
At(rows, path, step) == {r \in rows : r.path = path /\ r.step = step}

OnePerStep(rows) ==
    \A r1, r2 \in rows : (r1.path = r2.path /\ r1.step = r2.step) => r1 = r2

\* this step is a statement of log_metric_points' loop that succeeded
PointWritten ==
    /\ call.op = "log_metric_points"
    /\ call'.op = "log_metric_points"
    /\ Len(call'.items) = Len(call.items) + 1

\* this step is a log_metric_points call raising out of its loop
PointsCallFails ==
    /\ call.op = "log_metric_points"
    /\ call'.op = "none"
    /\ outcome'.res = "IntegrityError"

\* C1: the stored points, uncommitted and committed, never hold two points
\* for one (series path, step); and a write to a (path, step) that has a
\* point leaves exactly one point there, with the value and wall time written.
C1_OnePointPerSeriesStep ==
    [][/\ OnePerStep(JoinPoints(tx'))
       /\ OnePerStep(JoinPoints(db'))
       /\ PointWritten =>
              LET new == call'.items[Len(call'.items)]
              IN  At(JoinPoints(tx), new.path, new.step) # {}
                     => At(JoinPoints(tx'), new.path, new.step) = {new}]_vars

\* a committed point is being overwritten by a later call
C1_Witness ==
    /\ call.op = "log_metric_points"
    /\ Len(call.items) = 1
    /\ \E old \in JoinPoints(db) :
          /\ old.path = call.items[1].path
          /\ old.step = call.items[1].step
          /\ old.y # call.items[1].y
          /\ old.ts # call.items[1].ts
          /\ At(JoinPoints(tx), old.path, old.step) = {call.items[1]}

RowLex(a, b) == a.path < b.path \/ (a.path = b.path /\ a.step < b.step)

\* C2: get_metric_points(path) holds all of that series' points, in strictly
\* ascending step order, and get_metric_points() holds all points in strictly
\* ascending (path, step) order, in every state of an open store.
C2_PointsOrdered ==
    ~StorageIsClosed =>
        /\ \A p \in Paths :
              LET res == get_metric_points(p)
              IN  /\ {r \in JoinPoints(tx) : r.path = p} \subseteq Range(res)
                  /\ \A i, j \in 1..Len(res) :
                        (i < j /\ res[i].path = p /\ res[j].path = p)
                            => res[i].step < res[j].step
        /\ LET all == get_metric_points(NoPath)
           IN  /\ Range(all) = JoinPoints(tx)
               /\ \A i, j \in 1..Len(all) : i < j => RowLex(all[i], all[j])

\* one call inserted step 2 and then step 1 of "loss", an earlier call a
\* point of "": both reads return them in order
C2_Witness ==
    /\ call.op = "log_metric_points"
    /\ Len(call.items) = 2
    /\ call.items[1].path = 1 /\ call.items[1].step = 2
    /\ call.items[2].path = 1 /\ call.items[2].step = 1
    /\ get_metric_points(1) = <<call.items[2], call.items[1]>>
    /\ Len(get_metric_points(NoPath)) = 3
    /\ get_metric_points(NoPath)[1].path = 0

\* C5: when a log_metric_points call fails, the persisted series and point
\* tables are what they were before the call, and no transaction stays open.
C5_FailedPointsCallPersistsNothing ==
    [][PointsCallFails =>
          /\ db'.metric_series = stable.metric_series
          /\ db'.metric_points = stable.metric_points
          /\ db'.seq = stable.seq
          /\ tx' = db']_vars

\* a call failed after it had created a series and written a point
C5_Witness ==
    /\ outcome.op = "log_metric_points"
    /\ outcome.res = "IntegrityError"
    /\ outcome.n >= 1
    /\ \E p \in DOMAIN series_cache : \A s \in db.metric_series : s.path # p
    /\ db = stable

\* C6: between calls, get_metric_points() returns exactly the points of the
\* successful calls, each under the path it was logged with.
C6_CommittedPointsReturned ==
    (call.op = "none" /\ ~StorageIsClosed) => Range(get_metric_points(NoPath)) = logged

\* ------------------------------------------------------------------ configs
\* this step is a log_configs call returning normally
ConfigsCommit ==
    /\ call.op = "log_configs"
    /\ call'.op = "none"
    /\ outcome'.res = "ok"

\* this step is a log_configs call raising out of its loop
ConfigsCallFails ==
    /\ call.op = "log_configs"
    /\ call'.op = "none"
    /\ outcome'.res = "IntegrityError"

\* C3: the config table holds one entry per path; a successful log_configs
\* call leaves every path it contains at the (type_tag, value) it gave and
\* every other path as it was.
C3_ConfigsLastWriteWins ==
    [][/\ \A r1, r2 \in SelectConfigs(tx') : r1.path = r2.path => r1 = r2
       /\ ConfigsCommit =>
              \A path \in ConfigPaths :
                  {r \in SelectConfigs(tx') : r.path = path}
                      = IF \E i \in 1..Len(call.items) : call.items[i].path = path
                        THEN {call.items[i] : i \in {k \in 1..Len(call.items) :
                                                        call.items[k].path = path}}
                        ELSE {r \in SelectConfigs(db) : r.path = path}]_vars

\* a stored entry is being overwritten by a later call that leaves the
\* other stored entry alone
C3_Witness ==
    /\ call.op = "log_configs"
    /\ Len(call.items) = 1
    /\ \E old \in SelectConfigs(db) :
          /\ old.path = call.items[1].path
          /\ old.value # call.items[1].value
          /\ call.items[1] \in SelectConfigs(tx)
          /\ old \notin SelectConfigs(tx)
    /\ \E other \in SelectConfigs(db) :
          other.path # call.items[1].path /\ other \in SelectConfigs(tx)

\* C4: nothing of a log_configs call is persisted while the call runs; a
\* call that fails leaves the persisted config table as it was before the
\* call, no open transaction and the store open; a call that succeeds
\* persists all its entries in one step.
C4_ConfigsAtomic ==
    [][/\ call.op = "log_configs" => db.configs = stable.configs
       /\ ConfigsCallFails =>
              /\ db'.configs = stable.configs
              /\ tx' = db'
              /\ conn' = "open"
       /\ ConfigsCommit =>
              \A i \in 1..Len(call.items) : call.items[i] \in SelectConfigs(db')]_vars

\* a call failed on its second entry, after its first was written
C4_Witness ==
    /\ outcome.op = "log_configs"
    /\ outcome.res = "IntegrityError"
    /\ outcome.n = 1
    /\ conn = "open"
    /\ db.configs # {}
    /\ tx = db

\* ------------------------------------------------------------------ concurrent reads
\* C7: what a metrics request returns while the producer logs is the query's
\* result on the database as the last returned call left it: nothing of the
\* call in progress and nothing of a call that was rolled back.
C7_ReadSeesCommittedCallsOnly ==
    (reader.pc \in {"reading", "fetched"} /\ reader.route = "metrics")
        => reader.body = reader.base

\* a request read while the producer was inside a transaction with a point
\* written and not committed, and returned the points committed earlier
C7_Witness ==
    /\ reader.pc = "fetched"
    /\ reader.route = "metrics"
    /\ reader.behind >= 1
    /\ Len(reader.body.metrics) >= 1
    /\ call.op = "log_metric_points"

\* ------------------------------------------------------------------ close
SingleFile == [sqlite |-> TRUE, wal |-> "absent", shm |-> FALSE]

\* C8: when Run.close returns, the run is one file: the .sqlite file exists
\* and the -wal and -shm files do not.
C8_SingleFileAfterClose ==
    [][(run_pc = "close" /\ run_pc' = "idle" /\ outcome'.res = "ok")
          => files' = SingleFile]_vars

StorageOps ==
    {"set_meta", "get_meta", "log_configs", "get_configs", "log_metric_points",
     "get_metric_points", "get_metric_paths", "checkpoint_wal"}

\* C9: a closed store stays closed and opens no transaction; every
\* LocalStorage method called on it returns at once, raising "Storage is
\* closed", with the database, the files and the cache unchanged; and
\* log_configs and log_metrics of a closed Run raise "Run is closed" with the
\* database and the files unchanged.
C9_ClosedIsTerminal ==
    [][/\ conn = "closed" => (conn' = "closed" /\ call'.op = "none")
       /\ closed => closed'
       /\ (conn = "closed" /\ now' # now /\ run_pc' = "idle") => outcome'.at = now'
       /\ (conn = "closed" /\ outcome' # outcome /\ outcome'.op \in StorageOps)
             => /\ outcome'.res = "Storage is closed"
                /\ UNCHANGED <<db, tx, files, series_cache, logged>>
       /\ (closed /\ outcome' # outcome
             /\ outcome'.op \in {"Run.log_configs", "Run.log_metrics"})
             => /\ outcome'.res = "Run is closed"
                /\ UNCHANGED <<db, tx, files, series_cache, logged>>]_vars

\* points were stored, the store was closed, and a later log_metric_points
\* raised
C9_Witness ==
    /\ conn = "closed"
    /\ outcome.op = "log_metric_points"
    /\ outcome.res = "Storage is closed"
    /\ db.metric_points # {}

\* C10: close() of a closed LocalStorage and Run.close() of a closed Run
\* return normally and at once and change nothing: the database, with the
\* status and closed_at the first Run.close wrote, the files and the handle.
C10_CloseIdempotent ==
    [][/\ (conn = "closed" /\ outcome' # outcome /\ outcome'.op = "close")
             => /\ outcome'.res = "ok"
                /\ UNCHANGED <<conn, db, tx, files, series_cache, closed, run_pc>>
       /\ (closed /\ run_pc = "idle" /\ now' # now /\ outcome'.at = now'
             /\ outcome'.op = "Run.close")
             => /\ outcome'.res = "ok"
                /\ UNCHANGED <<conn, db, tx, files, series_cache, closed, run_pc>>
       /\ (closed /\ run_pc = "idle" /\ now' # now) => run_pc' = "idle"]_vars

\* a Run.close returned after the Run.close that wrote closed_at
C10_Witness ==
    /\ outcome.op = "Run.close"
    /\ outcome.res = "ok"
    /\ conn = "closed"
    /\ SelectMeta(db, "closed_at") # NULL
    /\ SelectMeta(db, "closed_at") # isoformat(outcome.at)
    /\ SelectMeta(db, "status") \in CloseStatusArgs

\* ------------------------------------------------------------------ status
\* the status the run file stores
StoredStatus == SelectMeta(db, "status")

\* C11: the stored status is "running" until Run.close writes it; it changes
\* only in that step of Run.close, from "running" to another value, and a
\* run whose close has returned does not have the status "running".
C11_StatusChangesOnceAtClose ==
    [][/\ (~closed /\ run_pc = "idle") => StoredStatus = "running"
       /\ StoredStatus' # StoredStatus
             => (run_pc = "set_status" /\ StoredStatus = "running")
       /\ (outcome'.op = "Run.close" /\ outcome'.res = "ok")
             => StoredStatus' # "running"]_vars

StatusDomain == {"running", "finished", "failed", "unknown"}

\* C12: the status stored in the metadata, and the status of the run in
\* every answer of the catalog scanner, is one of running, finished, failed,
\* unknown.
C12_StatusInDomain ==
    /\ StoredStatus \in StatusDomain
    /\ (reader.route = "runs" /\ reader.pc \in {"reading", "fetched"})
          => \A i \in 1..Len(reader.body.runs) : reader.body.runs[i].status \in StatusDomain

\* ------------------------------------------------------------------ creation
\* the constructions that have opened a run file
Attached == {c \in 1..MaxRuns : creating[c].pc \in {"open", "running"}}

\* C13: the constructions with generated names have pairwise distinct run
\* files, and each of them creates its file: none opens a file that exists.
C13_AutoNamedRunsDistinct ==
    [][\A c \in 1..MaxRuns :
          (creating[c].pc = "resolved" /\ creating'[c].pc = "open" /\ creating[c].auto)
              => /\ creating[c].name \notin DOMAIN rundir
                 /\ \A o \in Attached : creating[o].name # creating[c].name]_vars

\* C14: a construction with an explicit run name whose file exists raises
\* the already-exists error, is given no name, never goes on, and leaves the
\* directory and the contents of its files as they were.
C14_ExplicitExistingNameRaises ==
    [][\A c \in 1..MaxRuns :
          /\ (creating[c].pc = "new" /\ creating'[c].pc # "new"
                 /\ ~creating'[c].auto /\ creating'[c].arg \in DOMAIN rundir)
                => /\ creating'[c].pc = "raised"
                   /\ creating'[c].res = "Database already exists"
                   /\ creating'[c].name = NoName
                   /\ rundir' = rundir
          /\ creating[c].pc = "raised" => creating'[c] = creating[c]]_vars

\* an explicit name was refused: its file exists, written by another
\* construction, and holds what that construction wrote
C14_Witness ==
    \E c \in 1..MaxRuns :
        /\ creating[c].pc = "raised"
        /\ ~creating[c].auto
        /\ creating[c].res = "Database already exists"
        /\ creating[c].arg \in DOMAIN rundir
        /\ rundir[creating[c].arg].owners # {}
        /\ c \notin rundir[creating[c].arg].owners
        /\ rundir[creating[c].arg].run_name = creating[c].arg
        /\ creating[c].arg = <<"bold-falcon", 2>>

\* C15: no run file is opened for writing by two constructions.
C15_OneOwnerPerRunFile ==
    \A name \in DOMAIN rundir : Cardinality(rundir[name].owners) <= 1

\* ------------------------------------------------------------------ threads
\* the database a call leaves when its statements run alone, in order, on
\* database d with series cache c
RECURSIVE Alone(_, _, _)
Alone(d, c, items) ==
    IF items = <<>>
    THEN d
    ELSE LET done == Execute(d, c, Head(items))
         IN  Alone(done.db, done.cache, Tail(items))

Inside == {t \in Threads : threads[t].pc = "in"}

\* C16: at most one thread is inside a transaction, and it holds the lock;
\* nothing is persisted but by a commit; a commit persists exactly what the
\* committing call's statements give when run alone on the database the
\* previous call left, and a call that raises persists nothing: the
\* persisted database is always the result of the calls one after another.
C16_CallsSerialized ==
    [][/\ Cardinality(Inside) <= 1
       /\ \A t \in Inside : lock = t
       /\ \A t \in Threads :
             /\ (threads[t].pc = "in" /\ threads'[t].res = "ok" /\ threads'[t].pc = "out")
                   => /\ threads[t].base = db
                      /\ db' = Alone(db, threads[t].cache, threads[t].items)
             /\ (threads[t].pc = "in" /\ threads'[t].res = "IntegrityError"
                    /\ threads'[t].pc = "out")
                   => (db' = db /\ tx' = db /\ db = threads[t].base)
       /\ db' # db => \E t \in Inside : threads'[t].pc = "out"]_vars

\* a thread arrived while the other was inside a transaction, waited, and
\* then wrote on top of what the other had committed
C16_Witness ==
    \E t, o \in Threads :
        /\ t # o
        /\ threads[t].pc = "in"
        /\ threads[t].waited
        /\ Len(threads[t].items) >= 1
        /\ threads[o].res = "ok"
        /\ threads[o].op = "log_metric_points"
        /\ threads[t].base.metric_points # {}
        /\ threads[t].base = db

\* C17: the series table, uncommitted and committed, never holds two rows
\* for one path; the identifier a path has been given never changes; a
\* committed series row is never removed or renumbered; and every row's
\* identifier is the one its path resolves to.
C17_SeriesCreationIdempotent ==
    [][/\ \A s1, s2 \in tx'.metric_series : s1.path = s2.path => s1 = s2
       /\ \A p \in DOMAIN series_cache :
             p \in DOMAIN series_cache' /\ series_cache'[p] = series_cache[p]
       /\ \A s \in db.metric_series : s \in db'.metric_series
       /\ \A s \in tx'.metric_series :
             s.path \in DOMAIN series_cache' /\ series_cache'[s.path] = s.id]_vars

\* a thread arrived with a point of "loss" while the other thread was inside
\* its call, which created the series of "loss"; both wrote their point and
\* the table holds one row for "loss"
C17_Witness ==
    \E t, o \in Threads :
        /\ t # o
        /\ threads[t].pc = "in"
        /\ threads[t].waited
        /\ threads[o].res = "ok"
        /\ \E i \in 1..Len(threads[o].items) :
              threads[o].items[i].kind = "point" /\ threads[o].items[i].path = 1
        /\ \E i \in 1..Len(threads[t].items) :
              threads[t].items[i].kind = "point" /\ threads[t].items[i].path = 1
        /\ Cardinality({s \in tx.metric_series : s.path = 1}) = 1
        /\ Cardinality(tx.metric_points) >= 1

\* ------------------------------------------------------------------ server
\* C18: no step of a request (list runs, get configs, get metrics, get
\* metric paths) changes the committed or the uncommitted contents of the
\* run file, creates the run file or removes it; and no request the server
\* answers creates a file under runs/ or changes one.
C18_ReadersNeverWrite ==
    [][/\ reader' # reader
             => /\ db' = db
                /\ tx' = tx
                /\ stable' = stable
                /\ files'.sqlite = files.sqlite
       /\ sent' # sent => tree' = tree]_vars

C20_MissingRunIs404 ==
    [][/\ (reader' # reader /\ reader'.code # 0 /\ ~files.sqlite
             /\ reader'.route \in {"configs", "metrics", "metric-paths"})
          => (reader'.code = 404 /\ reader'.error # "")
       /\ reader'.code # 500]_vars

\* ------------------------------------------------------------------ responses
\* C21: every response sent carries Access-Control-Allow-Origin: *.
C21_EveryResponseHasCors == response.code # 0 => response.cors

Readable(t) == {f \in DOMAIN t : f \in Range(Files) /\ t[f].kind = "run"}

\* C23: the catalog a scan returns holds exactly one summary for every
\* readable run file, and none for the others.
C23_OneSummaryPerReadableFile ==
    [][(sent' # sent /\ response'.route = "runs")
          => /\ Len(response'.runs) = Cardinality(Readable(tree))
             /\ \A f \in Readable(tree) :
                   \E i \in 1..Len(response'.runs) :
                       response'.runs[i] = Summary(f, tree[f])]_vars

\* C24: the catalog is sorted by creation time, most recent first, and the
\* runs without a creation time come after all the runs that have one.
C24_CatalogNewestFirst ==
    (response.route = "runs" /\ response.code = 200)
        => \A i, j \in 1..Len(response.runs) :
              i < j => /\ ~StrLess(SortKey(response.runs[i]), SortKey(response.runs[j]))
                       /\ response.runs[i].created_at = Missing
                             => response.runs[j].created_at = Missing

\* a catalog of three runs of two projects: the scan met "d" (older), then
\* "e" (no creation time), then "f" (newer); the answer lists f, d, e
C24_Witness ==
    /\ response.route = "runs"
    /\ Len(response.runs) = 3
    /\ response.runs[1].run_id = <<"f">>
    /\ response.runs[1].created_at = <<1, 0>>
    /\ response.runs[2].run_id = <<"d">>
    /\ response.runs[2].created_at = <<0, 9>>
    /\ response.runs[3].project = "beta"
    /\ response.runs[3].created_at = Missing

\* ------------------------------------------------------------------ values
\* C25: deserialize_value(serialize_value(v)) is v, of the same kind, for
\* every value of a supported kind.
C25_SerializeRoundTrip ==
    util.fn = "deserialize_value" => util.out = util.arg

\* the empty string, 0, 0.0 and False each came back as themselves
C25_Witness ==
    /\ util.fn = "deserialize_value"
    /\ util.arg \in {Str(<<>>), IntOf(0), Float(FALSE, 0, <<>>), Bool(FALSE)}
    /\ util.out = util.arg
    /\ util.out # None

\* ------------------------------------------------------------------ flatten_dict
\* the leaves of a tree with their slash-joined paths, a list element under
\* its position
RECURSIVE LeafPaths(_, _)
LeafPaths(node, path) ==
    IF node.t = "leaf" THEN {<<path, node.value>>}
    ELSE IF node.t = "list"
    THEN UNION {LeafPaths(node.elems[i], NewKey(path, ToString(i - 1))) :
                   i \in 1..Len(node.elems)}
    ELSE UNION {LeafPaths(node.entries[i][2], NewKey(path, node.entries[i][1])) :
                   i \in 1..Len(node.entries)}

\* C26: with cast_unsupported flatten_dict returns the mapping of every leaf
\* path to its leaf, unsupported leaves as strings; without it the call
\* raises TypeError when the tree has an unsupported leaf and returns the
\* mapping of every leaf path to its leaf when it has none.
C26_FlattenMapsEveryLeaf ==
    util.fn = "flatten_dict"
        => LET leaves == LeafPaths(util.arg, "")
               cast == {<<l[1], IF is_supported_type(l[2]) THEN l[2]
                                ELSE cast_to_string(Leaf(l[2]))>> : l \in leaves}
           IN  IF util.cast
               THEN ~util.out.raised /\ util.out.dict = cast
               ELSE IF \E l \in leaves : ~is_supported_type(l[2])
               THEN util.out.raised /\ util.out.dict = {}
               ELSE ~util.out.raised /\ util.out.dict = leaves

\* ------------------------------------------------------------------ with Run(...)
\* C27: when the block of `with Run(...)` has ended the run is closed, the
\* stored status is 'finished' after a normal end and 'failed' after an
\* exception, and the caller sees the block's exception.
C27_ExitStatusFollowsBlock ==
    block.pc = "done"
        => /\ closed
           /\ conn = "closed"
           /\ StoredStatus = IF block.exc_type = "None" THEN "finished" ELSE "failed"
           /\ block.raised = block.exc_type

\* C27 as amended: when the block has ended the run is closed and the caller
\* sees the block's exception; a run the block left open gets the status
\* 'finished' after a normal end and 'failed' after an exception, a run the
\* block closed itself keeps the status of that close.
C27_ExitClosesOpenRun ==
    [][(block.pc # "done" /\ block'.pc = "done")
          => /\ closed'
             /\ conn' = "closed"
             /\ block'.raised = block'.exc_type
             /\ IF block'.was_closed
                THEN StoredStatus' = StoredStatus
                ELSE StoredStatus' = IF block'.exc_type = "None" THEN "finished"
                                     ELSE "failed"]_vars

C27_Witness ==
    /\ block.pc = "done"
    /\ ~block.was_closed
    /\ block.raised = "ValueError"
    /\ StoredStatus = "failed"
    /\ logged # {}

\* ------------------------------------------------------------------ reopening
\* what get_configs, get_metric_paths and get_metric_points of every path
\* return on the content d
ReadsOf(d) ==
    [configs |-> SelectConfigs(d),
     paths |-> SelectPaths(d),
     points |-> [i \in DOMAIN SelectPaths(d) |-> SelectPoints(d, SelectPaths(d)[i])]]

\* C28: from the call of Run.close on, the run file holds for get_configs,
\* get_metric_paths and get_metric_points what these reads returned just
\* before the call, through the steps of close and through the opening of a
\* new LocalStorage on the file; the store opened after close returned finds
\* the status given to close and a closed_at value.
C28_DataSurvivesClose ==
    [][/\ closed' => ReadsOf(tx') = ReadsOf(tx)
       /\ (closed /\ conn = "closed" /\ conn' = "open")
             => /\ SelectMeta(tx', "status") = close_status
                /\ SelectMeta(tx', "closed_at") # NULL]_vars

C28_Witness ==
    /\ closed
    /\ conn = "open"
    /\ outcome.op = "LocalStorage.__init__"
    /\ Len(SelectPaths(tx)) = 2
    /\ SelectMeta(tx, "status") = "failed"
    /\ SelectMeta(tx, "closed_at") # NULL

\* C30: a store opened on a path without a file leaves there a file with the
\* empty schema; a store opened on an existing file leaves the file's
\* metadata, configs, series and points as they were.
C30_OpenCreatesOrAttaches ==
    [][outcome'.op = "LocalStorage.__init__" /\ outcome' # outcome
          => /\ files'.sqlite
             /\ conn' = "open"
             /\ IF files.sqlite THEN db' = db /\ tx' = db ELSE db' = EmptyDb /\ tx' = EmptyDb]_vars

C30_Witness ==
    /\ outcome.op = "LocalStorage.__init__"
    /\ db.metric_points # {}
    /\ db.metric_series # {}
    /\ db.run_meta # {}

\* ------------------------------------------------------------------ metric paths
\* C29: after any sequence of log_metric_points calls get_metric_paths
\* returns, in ascending order and each once, exactly the paths of the
\* points that the calls which returned normally have stored.
C29_PathsOfStoredPoints ==
    (call.op = "none" /\ ~StorageIsClosed)
        => /\ \A i, j \in DOMAIN get_metric_paths : i < j => get_metric_paths[i] < get_metric_paths[j]
           /\ Range(get_metric_paths) = {p.path : p \in logged}

\* ------------------------------------------------------------------ name resolution
\* C31: when the generated base name is taken, resolution returns base-i for
\* the smallest i in 2..999 whose file does not exist, and raises, returning
\* no name, when base and all of base-2 .. base-999 exist.
C31_SmallestFreeSuffix ==
    [][\A c \in 1..MaxRuns :
          (creating[c].pc = "new" /\ creating'[c].pc # "new"
              /\ creating'[c].auto /\ creating'[c].arg \in DOMAIN rundir)
            => LET base == creating'[c].arg[1]
                   got == creating'[c]
               IN  IF \E i \in 2..999 : <<base, i>> \notin DOMAIN rundir
                   THEN /\ got.pc = "resolved"
                        /\ got.res = "ok"
                        /\ got.name[1] = base
                        /\ got.name[2] \in 2..999
                        /\ got.name \notin DOMAIN rundir
                        /\ \A j \in 2..(got.name[2] - 1) : <<base, j>> \in DOMAIN rundir
                   ELSE /\ got.pc = "raised"
                        /\ got.res = "Could not find a unique run name"
                        /\ got.name = NoName]_vars

C31_Witness ==
    \E c, o \in 1..MaxRuns :
        /\ creating[c].pc = "raised"
        /\ creating[c].auto
        /\ creating[c].res = "Could not find a unique run name"
        /\ \A i \in 2..999 : <<"bold-falcon", i>> \in DOMAIN rundir
        /\ creating[o].pc = "running"
        /\ creating[o].auto
        /\ creating[o].name = <<"bold-falcon", 500>>
        /\ rundir[creating[o].name].by = o

\* ------------------------------------------------------------------ filtered reads
\* C32: for every path p that can be stored, the empty path among them,
\* get_metric_points(p) of the store and the metrics route with ?path=p
\* return the points of the series p, all of them and no others.
C32_FilterReturnsThePath ==
    (call.op = "none" /\ ~StorageIsClosed)
        => \A p \in Paths :
              /\ Range(get_metric_points(p)) = {r \in JoinPoints(tx) : r.path = p}
              /\ get_metrics(db, p) = MetricsJson(OrderBy({r \in JoinPoints(db) : r.path = p}, "step"))

\* ------------------------------------------------------------------ series cache
\* C33: between the calls of an open store every cached path -> id pair is a
\* committed row of metric_series, and the series id of every stored point
\* is the id of a metric_series row.
C33_CacheAgreesWithSeries ==
    (call.op = "none" /\ ~StorageIsClosed)
        => /\ \A p \in DOMAIN series_cache :
                 [path |-> p, id |-> series_cache[p]] \in db.metric_series
           /\ \A pt \in db.metric_points : \E r \in db.metric_series : r.id = pt.series_id

\* ------------------------------------------------------------------ Run, threads
\* C34: a config or metric transaction is open or commits only while the
\* Run is not marked closed, so before close writes the status; a call of
\* log_configs or log_metrics that tests the flag of a closed Run raises
\* 'Run is closed'.
C34_NoCommitAfterClose ==
    [][\A t \in Threads :
          /\ callers[t].pc \in {"storage_wait", "in"} => (~closed /\ StoredStatus = "running")
          /\ (callers[t].pc = "in" /\ callers'[t].pc = "out")
                => (~closed' /\ StoredStatus' = "running" /\ callers'[t].res = "ok")
          /\ (callers[t].pc = "run_wait" /\ callers'[t].pc # "run_wait"
                 /\ callers[t].op # "close" /\ closed)
                => (callers'[t].pc = "out" /\ callers'[t].res = "Run is closed"
                       /\ db' = db /\ tx' = tx)]_vars

C34_Witness ==
    \E t, o \in Threads :
        /\ callers[t].op = "log_metrics"
        /\ callers[t].res = "ok"
        /\ callers[o].op = "close"
        /\ callers[o].pc = "out"
        /\ callers[o].res = "ok"
        /\ callers[o].calls = 1
        /\ callers[t].calls = 1
        /\ db.metric_points # {}
        /\ StoredStatus = "finished"

\* C35: when a call of Run.close returns normally to a thread, the final
\* status and closed_at are stored, the WAL holds no frames and the storage
\* connection is closed, also when another thread's close is in progress.
C35_CloseReturnsFinalized ==
    [][\A t \in Threads :
          (callers[t].op = "close" /\ callers[t].pc # "out"
              /\ callers'[t].pc = "out" /\ callers'[t].res = "ok")
            => /\ SelectMeta(db', "status") \in {"finished", "failed"}
               /\ SelectMeta(db', "closed_at") # NULL
               /\ files'.wal # "frames"
               /\ conn' = "closed"]_vars

\* C36: no thread waits for the Run lock while it holds the storage lock;
\* while a call is in progress some thread can take a step; and when every
\* thread that can take a step takes one in the end, every call returns or
\* raises.
C36_CallsNeverDeadlock ==
    /\ [](\A t \in Threads : callers[t].pc = "run_wait" => lock # t)
    /\ []((\E t \in Threads : callers[t].pc # "out")
             => \E o \in Threads : ENABLED <<Run_thread_step(o)>>_vars)
    /\ \A t \in Threads : (callers[t].pc # "out") ~> (callers[t].pc = "out")

C36_Witness ==
    \E t, o \in Threads :
        /\ callers[t].pc = "run_wait"
        /\ callers[t].op = "close"
        /\ callers[o].pc = "in"
        /\ callers[o].items # <<>>
        /\ run_lock = o
        /\ lock = o

\* ------------------------------------------------------------------ observable metadata
\* C37: in every committed state of the run file, which is what a reader can
\* observe, created_at and a status are present, and closed_at is present
\* only when the status is no longer 'running'.
C37_ClosedAtOnlyWhenFinal ==
    /\ SelectMeta(db, "created_at") # NULL
    /\ StoredStatus # NULL
    /\ SelectMeta(db, "closed_at") # NULL => StoredStatus # "running"

\* ------------------------------------------------------------------ read handles
\* C38: a request has at most one read handle open, and only between its
\* connect and its response; when the response has been sent, after a query
\* that returned and after one that raised, no read handle is open.
C38_NoHandleKept ==
    /\ reader.handles \in {0, 1}
    /\ reader.handles = 1 <=> reader.pc \in {"open", "reading", "fetched"}
    /\ reader.pc = "idle" => reader.handles = 0

C38_Witness ==
    /\ reader.pc = "idle"
    /\ reader.code = 500
    /\ reader.error = "disk I/O error"
    /\ reader.handles = 0
    /\ nreq = 1

====
